---- MODULE Spec2Model ----
(***************************************************************************)
(* Model of the video-platform MCP adapter: the REST client                *)
(* (internal/client/client.go), the tool handler factories                 *)
(* (internal/handlers/tools.go), the resource handlers                     *)
(* (internal/handlers/resources.go) and the prompt handlers                *)
(* (internal/handlers/prompts.go).  An invocation is followed from its     *)
(* arguments to its result; the handler blocks in httpClient.Do, which is  *)
(* where the model splits it in two steps.  Spec and SpecClient follow one *)
(* invocation at a time, SpecConcurrent two that are in flight together;   *)
(* SpecMain starts the process in every environment, SpecLimits tries the  *)
(* list tools with every kind of limit, and SpecFair runs every handler    *)
(* under the deadline of the HTTP client.                                  *)
(***************************************************************************)
EXTENDS Integers, Sequences, FiniteSets, TLC

VARIABLES
  goarch,          \* the architecture the binary was built for
  environ,         \* VIDEO_PLATFORM_URL in the environment the process was started with
  commandLine,     \* the -api-url flag of the command line the process was started with
  baseURL,         \* Client.baseURL
  pc,              \* where the invocation is: "idle", "waiting" (in httpClient.Do), "done"
  call,            \* the invocation: what was called, and with which arguments
  requests,        \* the HTTP requests the invocation has issued
  response,        \* what httpClient.Do returned
  ret,             \* what the client method returned
  result,          \* what the handler returned
  ctxDone,         \* the invocation's context has been cancelled
  parked,          \* the locals of the invocation that runs in the other goroutine
  upstreamStatus   \* the status of the session, as the upstream holds it

vars ==
  <<goarch, environ, commandLine, baseURL, pc, call, requests, response, ret, result, ctxDone, parked,
    upstreamStatus>>

(***************************************************************************)
(* Bounds                                                                  *)
(***************************************************************************)
\* at most this many filters are supplied to a list tool in one invocation
MaxFilters == 3

\* at most this many optional fields are supplied to a create tool in one invocation
MaxOptional == 2

(***************************************************************************)
(* Argument values: req.Params.Arguments is map[string]interface{}.  A     *)
(* float64 is represented by its number of halves (5 is 2.5), so that the  *)
(* int() conversion has something to truncate.                             *)
(***************************************************************************)
Absent == [t |-> "absent", s |-> "", n |-> 0, b |-> FALSE]

Str(s) == [t |-> "string", s |-> s, n |-> 0, b |-> FALSE]

Num(h) == [t |-> "number", s |-> "", n |-> h, b |-> FALSE]

Bool(b) == [t |-> "bool", s |-> "", n |-> 0, b |-> b]

\* v, ok := x.(string); the zero value when the assertion fails
AsString(x) == IF x.t = "string" THEN [ok |-> TRUE, v |-> x.s] ELSE [ok |-> FALSE, v |-> ""]

\* v, ok := x.(float64)
AsFloat(x) == IF x.t = "number" THEN [ok |-> TRUE, v |-> x.n] ELSE [ok |-> FALSE, v |-> 0]

\* v, ok := x.(bool)
AsBool(x) == IF x.t = "bool" THEN [ok |-> TRUE, v |-> x.b] ELSE [ok |-> FALSE, v |-> FALSE]

\* the architectures a build is tried for
GOARCHs == {"amd64", "arm64"}

\* the largest and the smallest int.  Go's int has 64 bits, the integers of the model
\* checker 32: the model's int has 30, which leaves room for a float64 beyond its range.
MaxInt == 2^29 - 1

MinInt == -(2^29)

\* the integer part of a float64 given in halves
Trunc(h) == IF h >= 0 THEN h \div 2 ELSE -((-h) \div 2)

\* an int() that rounds half away from zero
IntOfRounded(h) == IF h >= 0 THEN (h + 1) \div 2 ELSE -((1 - h) \div 2)

\* int(f) of a float64 given in halves: truncation toward zero when the result is an int;
\* when it is not, the conversion succeeds with a value that depends on the
\* implementation: the smallest int on amd64 (CVTTSD2SQ), the nearest int on arm64 (FCVTZS)
IntOf(h) ==
  CASE Trunc(h) > MaxInt -> IF goarch = "amd64" THEN MinInt ELSE MaxInt
    [] Trunc(h) < MinInt -> MinInt
    [] OTHER -> Trunc(h)

\* an optional pointer field: nil or the address of a value
Nil == [set |-> FALSE, t |-> "nil", s |-> "", n |-> 0, b |-> FALSE]

PtrS(s) == [set |-> TRUE, t |-> "string", s |-> s, n |-> 0, b |-> FALSE]

PtrN(n) == [set |-> TRUE, t |-> "int", s |-> "", n |-> n, b |-> FALSE]

PtrB(b) == [set |-> TRUE, t |-> "bool", s |-> "", n |-> 0, b |-> b]

(***************************************************************************)
(* Inputs                                                                  *)
(***************************************************************************)
Tools == {"list_sessions", "create_session", "start_session", "pause_session",
          "complete_session", "list_clips", "favorite_clip", "list_channels",
          "activate_channel", "deactivate_channel", "list_tags", "create_tag"}

\* strings that make url.Parse fail when they are part of a URL
UnparsableText == {"%zz", "http://[::1"}

\* a variable of the environment, or a flag of the command line, that is not there
Unset == [set |-> FALSE, value |-> ""]

\* one that is there, with its value
Given(value) == [set |-> TRUE, value |-> value]

\* VIDEO_PLATFORM_URL=... as the process may find it
Environments ==
  {Unset, Given(""), Given("http://myserver:8080"), Given("http://[::1")}

\* -api-url ... as the process may find it
CommandLines == {Unset, Given("http://192.168.1.100:8080"), Given("http://[::1")}

\* os.Getenv: the value of the variable, empty when it is not set
Getenv(e) == IF e.set THEN e.value ELSE ""

\* flag.String("api-url", "http://localhost:8080", ...) after flag.Parse()
apiURLFlag(cl) == IF cl.set THEN cl.value ELSE "http://localhost:8080"

\* a main that lets the flag override the environment
mainFlagFirst(e, cl) ==
  LET envURL == Getenv(e) IN
  IF cl.set THEN cl.value ELSE IF envURL # "" THEN envURL ELSE apiURLFlag(cl)

\* main: the URL handed to client.New
main(e, cl) ==
  LET apiURL == apiURLFlag(cl)
      envURL == Getenv(e)
  IN IF envURL # "" THEN envURL ELSE apiURL

\* the base URLs a client is created with
BaseURLs == {main(e, cl) : e \in Environments, cl \in CommandLines}

\* values tried for an argument the handler reads as a string
StringInputs == {Absent, Str(""), Str("session-123"), Str("%zz"), Num(14)}

\* values tried for an optional argument the handler reads as a string
FilterInputs == {Absent, Str(""), Str("active"), Num(14)}

\* values tried for an argument the handler reads as a float64
NumberInputs == {Absent, Num(20), Num(5), Num(1), Num(0), Num(-3), Str("10")}

\* values tried for an argument the handler reads as a bool
BoolInputs == {Absent, Bool(TRUE), Bool(FALSE), Str("true")}

\* values tried for a play field the handler reads as a float64
FieldInputs == {Absent, Num(5), Num(-3), Str("3")}

FieldKeys == {"down", "distance", "yards_gained"}

BoolKeys == {"favorite", "is_important", "is_reviewed"}

InputsFor(k) == IF k = "limit" THEN NumberInputs
                ELSE IF k \in FieldKeys THEN FieldInputs
                ELSE IF k \in BoolKeys THEN BoolInputs ELSE FilterInputs

\* the arguments whose absence the handler rejects
RequiredKeys(tool) ==
  CASE tool \in {"start_session", "pause_session", "complete_session"} -> {"session_id"}
    [] tool = "favorite_clip" -> {"clip_id"}
    [] tool \in {"activate_channel", "deactivate_channel"} -> {"channel_id"}
    [] tool = "create_session" -> {"name", "session_type"}
    [] tool = "create_tag" -> {"clip_id", "session_id"}
    [] OTHER -> {}

\* InputSchema.Required of each tool, as RegisterTools declares it
SchemaRequired(tool) ==
  CASE tool = "create_session" -> {"name", "session_type"}
    [] tool = "start_session" -> {"session_id"}
    [] tool = "pause_session" -> {"session_id"}
    [] tool = "complete_session" -> {"session_id"}
    [] tool = "favorite_clip" -> {"clip_id"}
    [] tool = "activate_channel" -> {"channel_id"}
    [] tool = "deactivate_channel" -> {"channel_id"}
    [] tool = "create_tag" -> {"clip_id", "session_id"}
    [] OTHER -> {}

\* the other arguments the handler reads
OptionalKeys(tool) ==
  CASE tool = "list_sessions" -> {"status", "session_type", "limit"}
    [] tool = "create_session" -> {"opponent", "location"}
    [] tool = "list_clips" -> {"session_id", "status", "favorite", "search", "limit"}
    [] tool = "list_tags" -> {"session_id", "clip_id", "play_type", "is_important",
                              "is_reviewed", "limit"}
    [] tool = "create_tag" -> {"play_type", "formation", "result", "down", "distance",
                               "yards_gained", "notes"}
    [] OTHER -> {}

\* how many of its optional arguments an invocation of the tool supplies at most
MaxSupplied(tool) == IF tool \in {"create_session", "create_tag"} THEN MaxOptional ELSE MaxFilters

\* the argument maps tried for a tool: a key that is not in the map reads as Absent
ArgMaps(tool) ==
  UNION {
    { [k \in RequiredKeys(tool) \cup OptionalKeys(tool) |->
         IF k \in RequiredKeys(tool) THEN r[k] ELSE IF k \in S THEN o[k] ELSE Absent]
      : r \in [RequiredKeys(tool) -> StringInputs],
        o \in {f \in [S -> FilterInputs \cup NumberInputs \cup BoolInputs] :
                 \A k \in S : f[k] \in InputsFor(k) /\ f[k] # Absent} }
    : S \in {T \in SUBSET OptionalKeys(tool) : Cardinality(T) <= MaxSupplied(tool)} }

(***************************************************************************)
(* Text.  A message is the sequence of the fragments that fmt.Sprintf and  *)
(* fmt.Errorf join; it contains a fragment when that fragment is one of    *)
(* them.                                                                   *)
(***************************************************************************)
Contains(text, frag) == \E i \in 1..Len(text) : text[i] = frag

\* error(nil)
NoError == <<>>

(***************************************************************************)
(* Upstream entities and responses                                         *)
(***************************************************************************)
SessionStatuses == {"scheduled", "active", "paused", "completed", "archived"}

ChannelStatuses == {"active", "inactive", "error"}

\* the fields of Session, Clip, Channel, Tag and PaginatedResponse the handlers look at
Entity(id, name, status, fav, total) ==
  [id |-> id, name |-> name, status |-> status, is_favorite |-> fav, total |-> total]

\* var session Session: the value before decoding
ZeroEntity == Entity("", "", "", FALSE, 0)

\* what a decoder can find in a response body
ObjectBody(raw, obj) == [kind |-> "object", raw |-> raw, obj |-> obj, readErr |-> ""]

MalformedBody ==
  [kind |-> "malformed", raw |-> "<html>Bad Gateway</html>", obj |-> ZeroEntity, readErr |-> ""]

EmptyBody == [kind |-> "empty", raw |-> "", obj |-> ZeroEntity, readErr |-> ""]

\* a body whose Read fails after the headers arrived: raw is what was read before that
InterruptedBody(readErr) ==
  [kind |-> "interrupted", raw |-> "{\"id\": \"", obj |-> ZeroEntity, readErr |-> readErr]

\* the errors resp.Body.Read returns when the client's deadline passes, or the context is
\* cancelled, while the body is read
DeadlineWhileReading ==
  "context deadline exceeded (Client.Timeout or context cancellation while reading body)"

CanceledWhileReading == "context canceled"

\* a JSON error document: it decodes, leaving every known field at its zero value
ErrorBody == ObjectBody("{\"error\": \"server error\"}", ZeroEntity)

\* what c.httpClient.Do hands back: a response, or an error
HTTPResponse(code, body) == [failed |-> FALSE, cause |-> "", code |-> code, body |-> body]

TransportFailure(cause) == [failed |-> TRUE, cause |-> cause, code |-> 0, body |-> EmptyBody]

NoResponse == [failed |-> FALSE, cause |-> "", code |-> 0, body |-> EmptyBody]

\* status codes of responses that reach doRequest
StatusCodes == {200, 204, 300, 404, 500}

TransportCauses == {"connection refused", "context deadline exceeded", "context canceled"}

\* the errors c.httpClient.Do returns: the context's own error once it is cancelled
\* a client created without Timeout, on a connection the upstream accepts: nothing but the
\* caller's cancellation makes Do give up
DoErrorsWithoutTimeout(cancelled) == IF cancelled THEN {"context canceled"} ELSE {}

\* the errors c.httpClient.Do can return
DoErrors(cancelled) ==
  IF cancelled THEN {"context canceled"} ELSE TransportCauses \ {"context canceled"}

(***************************************************************************)
(* internal/client/client.go                                               *)
(***************************************************************************)
\* a body handed to post: nil, or a request struct
NoBody == [kind |-> "nil"]

\* json.Marshal of a request struct: omitempty drops the nil pointers
Marshal(body) ==
  [kind |-> "json",
   fields |-> {k \in DOMAIN body : body[k].set},
   value |-> [k \in DOMAIN body |-> IF body[k].t = "int" THEN ToString(body[k].n)
                                     ELSE body[k].s]]

\* url.Values with one value per key, as Set leaves it
NoQuery == {}

QuerySet(query, key, value) == {p \in query : p.k # key} \cup {[k |-> key, v |-> value]}

\* the URL string: base, then the pieces of the path, then "?" and the encoded query
URL(base, path, query) == [base |-> base, path |-> path, query |-> query]

\* url.Parse inside http.NewRequestWithContext; query.Encode() escapes the values
URLParses(u) == /\ u.base \notin UnparsableText
                /\ \A i \in 1..Len(u.path) : u.path[i] \notin UnparsableText

ParseError(u) == <<"parse ", u.base>> \o u.path \o <<": invalid URL">>

\* a call into the client either stops before the network or issues one request
Stopped(err) == [sent |-> FALSE, err |-> err, req |-> [method |-> "", url |-> URL("", <<>>, NoQuery),
                                                        body |-> NoBody, contentType |-> "",
                                                        ctx |-> ""]]

Issued(req) == [sent |-> TRUE, err |-> NoError, req |-> req]

\* Client.get up to the call of doRequest
get(base, path, query) ==
  LET u == URL(base, path, query) IN
  IF ~URLParses(u) THEN Stopped(ParseError(u))
  ELSE Issued([method |-> "GET", url |-> u, body |-> NoBody, contentType |-> "",
               ctx |-> "ctx"])

\* Client.post building its request with context.Background() instead of ctx
postDetached(base, path, body) ==
  LET u == URL(base, path, NoQuery)
      bodyReader == IF body = NoBody THEN NoBody ELSE Marshal(body) IN
  IF ~URLParses(u) THEN Stopped(ParseError(u))
  ELSE Issued([method |-> "POST", url |-> u, body |-> bodyReader,
               contentType |-> "application/json", ctx |-> "background"])

\* Client.post up to the call of doRequest
post(base, path, body) ==
  LET u == URL(base, path, NoQuery)
      bodyReader == IF body = NoBody THEN NoBody ELSE Marshal(body) IN
  IF ~URLParses(u) THEN Stopped(ParseError(u))
  ELSE Issued([method |-> "POST", url |-> u, body |-> bodyReader,
               contentType |-> "application/json", ctx |-> "ctx"])

\* json.NewDecoder(resp.Body).Decode(result)
\* a decoder that takes a response without a body for an entity with no fields set
DecodeLenient(body) ==
  CASE body.kind \in {"object", "empty"} -> [err |-> NoError, v |-> body.obj]
    [] body.kind = "interrupted" -> [err |-> <<body.readErr>>, v |-> ZeroEntity]
    [] OTHER -> [err |-> <<"invalid character '<' looking for beginning of value">>,
                 v |-> ZeroEntity]

\* json.NewDecoder(resp.Body).Decode(result)
Decode(body) ==
  CASE body.kind = "object" -> [err |-> NoError, v |-> body.obj]
    [] body.kind = "empty" -> [err |-> <<"EOF">>, v |-> ZeroEntity]
    [] body.kind = "interrupted" -> [err |-> <<body.readErr>>, v |-> ZeroEntity]
    [] OTHER -> [err |-> <<"invalid character '<' looking for beginning of value">>,
                 v |-> ZeroEntity]

\* doRequest treating only the 5xx codes as errors
IsServerError(code) == code >= 500

\* the status codes doRequest turns into an error
IsAPIError(code) == code >= 400

\* Client.doRequest from the return of c.httpClient.Do
doRequest(resp) ==
  IF resp.failed THEN [err |-> <<"request failed: ", resp.cause>>, v |-> ZeroEntity]
  ELSE IF IsAPIError(resp.code)
       THEN [err |-> <<"API error ", ToString(resp.code), ": ", resp.body.raw>>, v |-> ZeroEntity]
       ELSE LET d == Decode(resp.body) IN
            IF d.err # NoError
            THEN [err |-> <<"failed to decode response: ">> \o d.err, v |-> ZeroEntity]
            ELSE [err |-> NoError, v |-> d.v]

\* no client method has returned
NoReturn == [err |-> NoError, isNil |-> TRUE, v |-> ZeroEntity]

\* what a client method returns: (nil, err) or (&entity, nil)
ClientReturn(err, v) ==
  IF err # NoError THEN [err |-> err, isNil |-> TRUE, v |-> ZeroEntity]
  ELSE [err |-> NoError, isNil |-> FALSE, v |-> v]

\* ListSessionsParams, ListClipsParams and ListTagsParams, zero-valued
ListSessionsParams == [Status |-> "", SessionType |-> "", Limit |-> 0, Offset |-> 0]

ListClipsParams == [SessionID |-> "", ChannelID |-> "", Status |-> "", Favorite |-> Nil,
                    Search |-> "", Limit |-> 0, Offset |-> 0]

ListTagsParams == [SessionID |-> "", ClipID |-> "", PlayType |-> "", IsImportant |-> Nil,
                   IsReviewed |-> Nil, Limit |-> 0, Offset |-> 0]

\* if field != "" { query.Set(key, field) }
SetString(query, key, field) == IF field # "" THEN QuerySet(query, key, field) ELSE query

\* if field > 0 { query.Set(key, fmt.Sprintf("%d", field)) }
SetInt(query, key, field) == IF field > 0 THEN QuerySet(query, key, ToString(field)) ELSE query

\* if field != nil { query.Set(key, fmt.Sprintf("%v", *field)) }
SetBool(query, key, field) ==
  IF field.set THEN QuerySet(query, key, IF field.b THEN "true" ELSE "false") ELSE query

\* the query Client.ListSessions builds
ListSessionsQuery(params) ==
  SetInt(SetInt(SetString(SetString(NoQuery,
    "status", params.Status),
    "session_type", params.SessionType),
    "limit", params.Limit),
    "offset", params.Offset)

\* the query Client.ListClips builds
ListClipsQuery(params) ==
  SetInt(SetInt(SetString(SetBool(SetString(SetString(SetString(NoQuery,
    "session_id", params.SessionID),
    "channel_id", params.ChannelID),
    "status", params.Status),
    "favorite", params.Favorite),
    "search", params.Search),
    "limit", params.Limit),
    "offset", params.Offset)

\* the query Client.ListTags builds
ListTagsQuery(params) ==
  SetInt(SetBool(SetBool(SetString(SetString(SetString(NoQuery,
    "session_id", params.SessionID),
    "clip_id", params.ClipID),
    "play_type", params.PlayType),
    "is_important", params.IsImportant),
    "is_reviewed", params.IsReviewed),
    "limit", params.Limit)

\* the client methods, up to the call of doRequest
ListSessions(base, params) == get(base, <<"/api/v1/sessions">>, ListSessionsQuery(params))

GetSession(base, id) == get(base, <<"/api/v1/sessions/", id>>, NoQuery)

CreateSession(base, req) == post(base, <<"/api/v1/sessions">>, req)

\* StartSession posting to the endpoint of PauseSession
StartSessionPauses(base, id) == post(base, <<"/api/v1/sessions/", id, "/pause">>, NoBody)

StartSession(base, id) == post(base, <<"/api/v1/sessions/", id, "/start">>, NoBody)

PauseSession(base, id) == post(base, <<"/api/v1/sessions/", id, "/pause">>, NoBody)

CompleteSession(base, id) == post(base, <<"/api/v1/sessions/", id, "/complete">>, NoBody)

ListClips(base, params) == get(base, <<"/api/v1/clips">>, ListClipsQuery(params))

GetClip(base, id) == get(base, <<"/api/v1/clips/", id>>, NoQuery)

\* FavoriteClip calling c.get instead of c.post
FavoriteClipGets(base, id) == get(base, <<"/api/v1/clips/", id, "/favorite">>, NoQuery)

FavoriteClip(base, id) == post(base, <<"/api/v1/clips/", id, "/favorite">>, NoBody)

ListChannels(base) == get(base, <<"/api/v1/channels">>, NoQuery)

ActivateChannel(base, id) == post(base, <<"/api/v1/channels/", id, "/activate">>, NoBody)

DeactivateChannel(base, id) == post(base, <<"/api/v1/channels/", id, "/deactivate">>, NoBody)

ListTags(base, params) == get(base, <<"/api/v1/tags">>, ListTagsQuery(params))

CreateTag(base, req) == post(base, <<"/api/v1/tags">>, req)

(***************************************************************************)
(* internal/handlers/tools.go                                              *)
(***************************************************************************)
\* what a handler returns: (*mcp.CallToolResult, error)
NoResult == [isNil |-> TRUE, isError |-> FALSE, text |-> <<>>, err |-> NoError, contents |-> <<>>]

\* return mcp.NewToolResultError(text), nil
NewToolResultError(text) ==
  [isNil |-> FALSE, isError |-> TRUE, text |-> text, err |-> NoError, contents |-> <<>>]

\* return mcp.NewToolResultText(text), nil
NewToolResultText(text) ==
  [isNil |-> FALSE, isError |-> FALSE, text |-> text, err |-> NoError, contents |-> <<>>]

\* json.MarshalIndent of a decoded entity
MarshalIndent(e) ==
  <<"{", "\"id\": ", e.id, "\"name\": ", e.name, "\"status\": ", e.status,
    "\"is_favorite\": ", IF e.is_favorite THEN "true" ELSE "false",
    "\"total\": ", ToString(e.total), "}">>

\* the format string each handler wraps the client's error in
FailureText(tool) ==
  CASE tool = "list_sessions" -> "Failed to list sessions: "
    [] tool = "create_session" -> "Failed to create session: "
    [] tool = "start_session" -> "Failed to start session: "
    [] tool = "pause_session" -> "Failed to pause session: "
    [] tool = "complete_session" -> "Failed to complete session: "
    [] tool = "list_clips" -> "Failed to list clips: "
    [] tool = "favorite_clip" -> "Failed to toggle favorite: "
    [] tool = "list_channels" -> "Failed to list channels: "
    [] tool = "activate_channel" -> "Failed to activate channel: "
    [] tool = "deactivate_channel" -> "Failed to deactivate channel: "
    [] tool = "list_tags" -> "Failed to list tags: "
    [] tool = "create_tag" -> "Failed to create tag: "

\* a favorite_clip that reports every toggle as an addition
SuccessTextAlwaysAdded(tool, e) ==
  CASE tool \in {"list_sessions", "list_clips", "list_channels", "list_tags"} -> MarshalIndent(e)
    [] tool = "create_session" -> <<"Session created successfully:">> \o MarshalIndent(e)
    [] tool = "start_session" ->
         <<"Session '", e.name, "' ", "started successfully", ". Status: ", e.status>>
    [] tool = "pause_session" -> <<"Session '", e.name, "' ", "paused", ". Status: ", e.status>>
    [] tool = "complete_session" -> <<"Session completed:">> \o MarshalIndent(e)
    [] tool = "favorite_clip" -> <<"Clip ", "added to", " favorites">>
    [] tool = "activate_channel" ->
         <<"Channel '", e.name, "' ", "activated", ". Status: ", e.status>>
    [] tool = "deactivate_channel" ->
         <<"Channel '", e.name, "' ", "deactivated", ". Status: ", e.status>>
    [] tool = "create_tag" -> <<"Tag created:">> \o MarshalIndent(e)

\* the text each handler builds from the entity the client returned
SuccessText(tool, e) ==
  CASE tool \in {"list_sessions", "list_clips", "list_channels", "list_tags"} -> MarshalIndent(e)
    [] tool = "create_session" -> <<"Session created successfully:">> \o MarshalIndent(e)
    [] tool = "start_session" ->
         <<"Session '", e.name, "' ", "started successfully", ". Status: ", e.status>>
    [] tool = "pause_session" -> <<"Session '", e.name, "' ", "paused", ". Status: ", e.status>>
    [] tool = "complete_session" -> <<"Session completed:">> \o MarshalIndent(e)
    [] tool = "favorite_clip" ->
         <<"Clip ", IF ~e.is_favorite THEN "removed from" ELSE "added to", " favorites">>
    [] tool = "activate_channel" ->
         <<"Channel '", e.name, "' ", "activated", ". Status: ", e.status>>
    [] tool = "deactivate_channel" ->
         <<"Channel '", e.name, "' ", "deactivated", ". Status: ", e.status>>
    [] tool = "create_tag" -> <<"Tag created:">> \o MarshalIndent(e)

\* a handler passing the client's error on as its own error
HandlerReturnsError(tool, r) ==
  IF r.err # NoError
  THEN [isNil |-> TRUE, isError |-> FALSE, text |-> <<>>, err |-> r.err, contents |-> <<>>]
  ELSE NewToolResultText(SuccessText(tool, r.v))

\* the tail of every handler: if err != nil { error result } else { text result }
HandlerReturn(tool, r) ==
  IF r.err # NoError THEN NewToolResultError(<<FailureText(tool)>> \o r.err)
  ELSE NewToolResultText(SuccessText(tool, r.v))

\* the handler returns before it calls the client
Reject(tool, args, message) ==
  /\ pc = "idle"
  /\ pc' = "done"
  /\ call' = [kind |-> "tool", name |-> tool, args |-> args]
  /\ requests' = <<>>
  /\ response' = NoResponse
  /\ ret' = NoReturn
  /\ result' = NewToolResultError(<<message>>)
  /\ UNCHANGED <<goarch, environ, commandLine, baseURL, upstreamStatus, ctxDone, parked>>

\* a handler that looks the entity up before it sends the request
InvokeAfterLookup(tool, args, sent) ==
  /\ pc = "idle"
  /\ call' = [kind |-> "tool", name |-> tool, args |-> args]
  /\ response' = NoResponse
  /\ IF sent.sent
     THEN /\ pc' = "waiting"
          /\ requests' = <<[sent.req EXCEPT !.method = "GET", !.body = NoBody], sent.req>>
          /\ ret' = NoReturn
          /\ result' = NoResult
     ELSE /\ pc' = "done"
          /\ requests' = <<>>
          /\ ret' = ClientReturn(sent.err, ZeroEntity)
          /\ result' = HandlerReturn(tool, ret')
  /\ UNCHANGED <<goarch, environ, commandLine, baseURL, upstreamStatus, ctxDone, parked>>

\* the handler calls the client: the call stops early, or blocks in c.httpClient.Do
Invoke(tool, args, sent) ==
  /\ pc = "idle"
  /\ call' = [kind |-> "tool", name |-> tool, args |-> args]
  /\ response' = NoResponse
  /\ IF sent.sent
     THEN /\ pc' = "waiting"
          /\ requests' = <<sent.req>>
          /\ ret' = NoReturn
          /\ result' = NoResult
     ELSE /\ pc' = "done"
          /\ requests' = <<>>
          /\ ret' = ClientReturn(sent.err, ZeroEntity)
          /\ result' = HandlerReturn(tool, ret')
  /\ UNCHANGED <<goarch, environ, commandLine, baseURL, upstreamStatus, ctxDone, parked>>

\* a string argument copied into a params field when the assertion succeeds
StringOr(args, key, default) == IF AsString(args[key]).ok THEN AsString(args[key]).v ELSE default

\* a bool argument whose address is stored when the assertion succeeds
BoolPtr(args, key) == IF AsBool(args[key]).ok THEN PtrB(AsBool(args[key]).v) ELSE Nil

\* a string argument whose address is stored when the assertion succeeds
StringPtr(args, key) == IF AsString(args[key]).ok THEN PtrS(AsString(args[key]).v) ELSE Nil

\* a number argument converted with int() and its address stored when the assertion succeeds
IntPtr(args, key) == IF AsFloat(args[key]).ok THEN PtrN(IntOf(AsFloat(args[key]).v)) ELSE Nil

\* a list handler that converts limit whenever the key is present, whatever its type
LimitOrZeroWhenMistyped(args, default) ==
  IF args["limit"].t = "absent" THEN default ELSE IntOf(AsFloat(args["limit"]).v)

\* the limit a list handler ends up with
LimitOr(args, default) == IF AsFloat(args["limit"]).ok THEN IntOf(AsFloat(args["limit"]).v)
                          ELSE default

\* makeListSessions storing each of the two string filters in the other's field
makeListSessionsParamsSwapped(args) ==
  [ListSessionsParams EXCEPT !.Limit = LimitOr(args, 20),
                             !.Status = StringOr(args, "session_type", ""),
                             !.SessionType = StringOr(args, "status", "")]

makeListSessionsParams(args) ==
  [ListSessionsParams EXCEPT !.Limit = LimitOr(args, 20),
                             !.Status = StringOr(args, "status", ""),
                             !.SessionType = StringOr(args, "session_type", "")]

\* makeListSessions with params declared in the factory instead of in the handler it
\* returns: the invocations of the tool share one struct, and the one that wrote last wins
makeListSessionsHoisted(args) ==
  LET written == IF parked.pc = "waiting" /\ parked.call.name = "list_sessions"
                 THEN parked.call.args ELSE args IN
  Invoke("list_sessions", args, ListSessions(baseURL, makeListSessionsParams(written)))

makeListSessions(args) ==
  Invoke("list_sessions", args, ListSessions(baseURL, makeListSessionsParams(args)))

\* makeCreateSession filling Name with the session type and SessionType with the name
makeCreateSessionRequestSwapped(args) ==
  [name |-> PtrS(AsString(args["session_type"]).v), session_type |-> PtrS(AsString(args["name"]).v),
   scheduled_start |-> Nil,
   opponent |-> StringPtr(args, "opponent"),
   location |-> StringPtr(args, "location")]

\* the CreateSessionRequest makeCreateSession fills in
makeCreateSessionRequest(args) ==
  [name |-> PtrS(AsString(args["name"]).v), session_type |-> PtrS(AsString(args["session_type"]).v),
   scheduled_start |-> Nil,
   opponent |-> StringPtr(args, "opponent"),
   location |-> StringPtr(args, "location")]

\* a create_session that also insists on the opponent
makeCreateSessionWithOpponent(args) ==
  LET name == AsString(args["name"]).v
      sessionType == AsString(args["session_type"]).v
      opponent == AsString(args["opponent"]).v
      createReq == makeCreateSessionRequest(args) IN
  IF name = "" \/ sessionType = "" \/ opponent = ""
  THEN Reject("create_session", args, "name and session_type are required")
  ELSE Invoke("create_session", args, CreateSession(baseURL, createReq))

makeCreateSession(args) ==
  LET name == AsString(args["name"]).v
      sessionType == AsString(args["session_type"]).v
      createReq == makeCreateSessionRequest(args) IN
  IF name = "" \/ sessionType = ""
  THEN Reject("create_session", args, "name and session_type are required")
  ELSE Invoke("create_session", args, CreateSession(baseURL, createReq))

\* makeStartSession without its check of session_id
makeStartSessionUnchecked(args) ==
  Invoke("start_session", args, StartSession(baseURL, AsString(args["session_id"]).v))

makeStartSession(args) ==
  LET sessionID == AsString(args["session_id"]).v IN
  IF sessionID = "" THEN Reject("start_session", args, "session_id is required")
  ELSE Invoke("start_session", args, StartSession(baseURL, sessionID))

\* makePauseSession refusing, without a request, to pause a session that is not active
makePauseSessionIfActive(args) ==
  LET sessionID == AsString(args["session_id"]).v IN
  IF sessionID = "" THEN Reject("pause_session", args, "session_id is required")
  ELSE IF upstreamStatus # "active" THEN Reject("pause_session", args, "session is not active")
  ELSE Invoke("pause_session", args, PauseSession(baseURL, sessionID))

makePauseSession(args) ==
  LET sessionID == AsString(args["session_id"]).v IN
  IF sessionID = "" THEN Reject("pause_session", args, "session_id is required")
  ELSE Invoke("pause_session", args, PauseSession(baseURL, sessionID))

makeCompleteSession(args) ==
  LET sessionID == AsString(args["session_id"]).v IN
  IF sessionID = "" THEN Reject("complete_session", args, "session_id is required")
  ELSE Invoke("complete_session", args, CompleteSession(baseURL, sessionID))

\* a list_clips that starts from the default of list_tags
makeListClipsParamsFifty(args) ==
  [ListClipsParams EXCEPT !.Limit = LimitOr(args, 50),
                          !.SessionID = StringOr(args, "session_id", ""),
                          !.Status = StringOr(args, "status", ""),
                          !.Favorite = BoolPtr(args, "favorite"),
                          !.Search = StringOr(args, "search", "")]

makeListClipsParams(args) ==
  [ListClipsParams EXCEPT !.Limit = LimitOr(args, 20),
                          !.SessionID = StringOr(args, "session_id", ""),
                          !.Status = StringOr(args, "status", ""),
                          !.Favorite = BoolPtr(args, "favorite"),
                          !.Search = StringOr(args, "search", "")]

makeListClips(args) ==
  Invoke("list_clips", args, ListClips(baseURL, makeListClipsParams(args)))

makeFavoriteClip(args) ==
  LET clipID == AsString(args["clip_id"]).v IN
  IF clipID = "" THEN Reject("favorite_clip", args, "clip_id is required")
  ELSE Invoke("favorite_clip", args, FavoriteClip(baseURL, clipID))

makeListChannels(args) == Invoke("list_channels", args, ListChannels(baseURL))

makeActivateChannel(args) ==
  LET channelID == AsString(args["channel_id"]).v IN
  IF channelID = "" THEN Reject("activate_channel", args, "channel_id is required")
  ELSE Invoke("activate_channel", args, ActivateChannel(baseURL, channelID))

\* a deactivate_channel that calls the activation endpoint
makeDeactivateChannelActivates(args) ==
  LET channelID == AsString(args["channel_id"]).v IN
  IF channelID = "" THEN Reject("deactivate_channel", args, "channel_id is required")
  ELSE Invoke("deactivate_channel", args, ActivateChannel(baseURL, channelID))

makeDeactivateChannel(args) ==
  LET channelID == AsString(args["channel_id"]).v IN
  IF channelID = "" THEN Reject("deactivate_channel", args, "channel_id is required")
  ELSE Invoke("deactivate_channel", args, DeactivateChannel(baseURL, channelID))

makeListTagsParams(args) ==
  [ListTagsParams EXCEPT !.Limit = LimitOr(args, 50),
                         !.SessionID = StringOr(args, "session_id", ""),
                         !.ClipID = StringOr(args, "clip_id", ""),
                         !.PlayType = StringOr(args, "play_type", ""),
                         !.IsImportant = BoolPtr(args, "is_important"),
                         !.IsReviewed = BoolPtr(args, "is_reviewed")]

makeListTags(args) ==
  Invoke("list_tags", args, ListTags(baseURL, makeListTagsParams(args)))

\* makeCreateTag rejecting only when both identifiers are missing
makeCreateTagEitherSuffices(args) ==
  LET clipID == AsString(args["clip_id"]).v
      sessionID == AsString(args["session_id"]).v
      createReq == [clip_id |-> PtrS(clipID), session_id |-> PtrS(sessionID),
                    quarter |-> Nil, down |-> Nil, distance |-> Nil, play_type |-> Nil,
                    formation |-> Nil, result |-> Nil, yards_gained |-> Nil,
                    labels |-> Nil, notes |-> Nil] IN
  IF clipID = "" /\ sessionID = ""
  THEN Reject("create_tag", args, "clip_id and session_id are required")
  ELSE Invoke("create_tag", args, CreateTag(baseURL, createReq))

\* the CreateTagRequest makeCreateTag fills in
makeCreateTagRequest(args) ==
  [clip_id |-> PtrS(AsString(args["clip_id"]).v),
   session_id |-> PtrS(AsString(args["session_id"]).v),
   quarter |-> Nil,
   down |-> IntPtr(args, "down"),
   distance |-> IntPtr(args, "distance"),
   play_type |-> StringPtr(args, "play_type"),
   formation |-> StringPtr(args, "formation"),
   result |-> StringPtr(args, "result"),
   yards_gained |-> IntPtr(args, "yards_gained"),
   labels |-> Nil,
   notes |-> StringPtr(args, "notes")]

makeCreateTag(args) ==
  LET clipID == AsString(args["clip_id"]).v
      sessionID == AsString(args["session_id"]).v
      createReq == makeCreateTagRequest(args) IN
  IF clipID = "" \/ sessionID = ""
  THEN Reject("create_tag", args, "clip_id and session_id are required")
  ELSE Invoke("create_tag", args, CreateTag(baseURL, createReq))

(***************************************************************************)
(* internal/handlers/resources.go                                          *)
(***************************************************************************)
Resources == {"video://sessions", "video://clips", "video://channels", "video://tags"}

\* the format string each resource handler wraps the client's error in
FetchFailureText(resource) ==
  CASE resource = "video://sessions" -> "failed to fetch sessions: "
    [] resource = "video://clips" -> "failed to fetch clips: "
    [] resource = "video://channels" -> "failed to fetch channels: "
    [] resource = "video://tags" -> "failed to fetch tags: "

\* a resource handler that answers a failed client call with an empty list and no error
ResourceReturnsEmpty(resource, uri, r) ==
  IF r.err # NoError
  THEN [isNil |-> FALSE, isError |-> FALSE, text |-> <<>>, err |-> NoError, contents |-> <<>>]
  ELSE [isNil |-> FALSE, isError |-> FALSE, text |-> <<>>, err |-> NoError,
        contents |-> <<[uri |-> uri, mimeType |-> "application/json",
                        text |-> MarshalIndent(r.v)]>>]

\* the tail of every resource handler: (nil, wrapped error) or one text document
ResourceReturn(resource, uri, r) ==
  IF r.err # NoError
  THEN [isNil |-> TRUE, isError |-> FALSE, text |-> <<>>,
        err |-> <<FetchFailureText(resource)>> \o r.err, contents |-> <<>>]
  ELSE [isNil |-> FALSE, isError |-> FALSE, text |-> <<>>, err |-> NoError,
        contents |-> <<[uri |-> uri, mimeType |-> "application/json",
                        text |-> MarshalIndent(r.v)]>>]

\* the resource handler calls the client: the call stops early, or blocks in c.httpClient.Do
Read(resource, uri, sent) ==
  /\ pc = "idle"
  /\ call' = [kind |-> "resource", name |-> resource, args |-> [uri |-> Str(uri)]]
  /\ response' = NoResponse
  /\ IF sent.sent
     THEN /\ pc' = "waiting"
          /\ requests' = <<sent.req>>
          /\ ret' = NoReturn
          /\ result' = NoResult
     ELSE /\ pc' = "done"
          /\ requests' = <<>>
          /\ ret' = ClientReturn(sent.err, ZeroEntity)
          /\ result' = ResourceReturn(resource, uri, ret')
  /\ UNCHANGED <<goarch, environ, commandLine, baseURL, upstreamStatus, ctxDone, parked>>

makeSessionsResource(uri) ==
  Read("video://sessions", uri,
       ListSessions(baseURL, [ListSessionsParams EXCEPT !.Limit = 100]))

makeClipsResource(uri) ==
  Read("video://clips", uri, ListClips(baseURL, [ListClipsParams EXCEPT !.Limit = 100]))

makeChannelsResource(uri) == Read("video://channels", uri, ListChannels(baseURL))

\* makeTagsResource asking for the page size makeListTags defaults to
makeTagsResourceDefaultPage(uri) ==
  Read("video://tags", uri, ListTags(baseURL, [ListTagsParams EXCEPT !.Limit = 50]))

makeTagsResource(uri) ==
  Read("video://tags", uri, ListTags(baseURL, [ListTagsParams EXCEPT !.Limit = 100]))

(***************************************************************************)
(* internal/handlers/prompts.go.  req.Params.Arguments is a                *)
(* map[string]string: a key that is not in it reads as "".                 *)
(***************************************************************************)
Prompts == {"analyze_session", "review_clips", "game_report", "system_status"}

\* the arguments each prompt handler reads
PromptKeys(prompt) ==
  CASE prompt = "analyze_session" -> {"session_id", "focus"}
    [] prompt = "review_clips" -> {"session_id", "play_type"}
    [] prompt = "game_report" -> {"session_id"}
    [] OTHER -> {}

\* values tried for a prompt argument
PromptInputs == {Absent, Str(""), Str("session-123")}

PromptArgMaps(prompt) == [PromptKeys(prompt) -> PromptInputs]

\* return nil, fmt.Errorf(message)
PromptError(message) ==
  [isNil |-> TRUE, isError |-> FALSE, text |-> <<>>, err |-> <<message>>, contents |-> <<>>]

\* return &mcp.GetPromptResult{one user message with this text}, nil
PromptResult(text) ==
  [isNil |-> FALSE, isError |-> FALSE, text |-> <<>>, err |-> NoError,
   contents |-> <<[role |-> "user", type |-> "text", text |-> text]>>]

handleAnalyzeSession(args) ==
  LET sessionID == args["session_id"].s
      focus == IF args["focus"].s # "" THEN args["focus"].s ELSE "all" IN
  IF sessionID = "" THEN PromptError("session_id is required")
  ELSE PromptResult(<<"Analyze the video session with ID: ", sessionID,
                      "Focus area: ", focus,
                      "video://sessions/", sessionID, "/summary">>)

\* handleReviewClips without its check of session_id
handleReviewClipsUnchecked(args) ==
  LET sessionID == args["session_id"].s
      playType == args["play_type"].s
      playTypeFilter == IF playType # "" THEN <<"Filtered by play type: ", playType>>
                        ELSE <<>> IN
  PromptResult(<<"Review clips from session: ", sessionID>> \o playTypeFilter
                 \o <<"Filter by session_id: ", sessionID>> \o playTypeFilter)

handleReviewClips(args) ==
  LET sessionID == args["session_id"].s
      playType == args["play_type"].s
      playTypeFilter == IF playType # "" THEN <<"Filtered by play type: ", playType>>
                        ELSE <<>> IN
  IF sessionID = "" THEN PromptError("session_id is required")
  ELSE PromptResult(<<"Review clips from session: ", sessionID>> \o playTypeFilter
                      \o <<"Filter by session_id: ", sessionID>> \o playTypeFilter)

\* handleGameReport without its check of session_id
handleGameReportUnchecked(args) ==
  LET sessionID == args["session_id"].s IN
  PromptResult(<<"Generate a comprehensive game report for session: ", sessionID,
                 "video://sessions/", sessionID, "/summary">>)

handleGameReport(args) ==
  LET sessionID == args["session_id"].s IN
  IF sessionID = "" THEN PromptError("session_id is required")
  ELSE PromptResult(<<"Generate a comprehensive game report for session: ", sessionID,
                      "video://sessions/", sessionID, "/summary">>)

handleSystemStatus(args) ==
  PromptResult(<<"Check the current status of the video platform system:">>)

\* the handler registered for each prompt
PromptHandler(prompt, args) ==
  CASE prompt = "analyze_session" -> handleAnalyzeSession(args)
    [] prompt = "review_clips" -> handleReviewClips(args)
    [] prompt = "game_report" -> handleGameReport(args)
    [] prompt = "system_status" -> handleSystemStatus(args)

\* a prompt handler runs from its call to its return: it calls nothing
Prompt(prompt, args) ==
  /\ pc = "idle"
  /\ pc' = "done"
  /\ call' = [kind |-> "prompt", name |-> prompt, args |-> args]
  /\ requests' = <<>>
  /\ response' = NoResponse
  /\ ret' = NoReturn
  /\ result' = PromptHandler(prompt, args)
  /\ UNCHANGED <<goarch, environ, commandLine, baseURL, upstreamStatus, ctxDone, parked>>

\* what the handler of the invocation returns once the client method has returned
\* a start_session that reports a failure unless the session came back active
ReturnChecksStatus(c, r) ==
  CASE c.kind = "resource" -> ResourceReturn(c.name, c.args["uri"].s, r)
    [] c.kind = "tool" /\ c.name = "start_session" /\ r.err = NoError /\ r.v.status # "active" ->
         NewToolResultError(<<FailureText(c.name), "session is ", r.v.status>>)
    [] c.kind = "tool" -> HandlerReturn(c.name, r)
    [] OTHER -> NoResult

Return(c, r) ==
  CASE c.kind = "resource" -> ResourceReturn(c.name, c.args["uri"].s, r)
    [] c.kind = "tool" -> HandlerReturn(c.name, r)
    [] OTHER -> NoResult

(***************************************************************************)
(* The upstream service.  It owns the entities and the session lifecycle;  *)
(* the adapter sees only what it answers.                                  *)
(***************************************************************************)
\* POST /api/v1/sessions/{id}/{start,pause,complete}
IsLifecycleRequest(req) ==
  /\ req.method = "POST"
  /\ Len(req.url.path) = 3
  /\ req.url.path[1] = "/api/v1/sessions/"

\* the documents the upstream may answer a request with when it accepts it
EntitiesFor(req, status) ==
  CASE req.url.path[1] = "/api/v1/sessions/" ->
         {Entity(req.url.path[2], "Test Session", status, FALSE, 0)}
    [] req.url.path[1] = "/api/v1/sessions" /\ req.method = "POST" ->
         {Entity("new-session-id", "New Game", "scheduled", FALSE, 0)}
    [] req.url.path[1] = "/api/v1/sessions" /\ req.method = "GET" ->
         {Entity("session-1", "Game 1", status, FALSE, 2), ZeroEntity}
    [] req.url.path[1] \in {"/api/v1/clips", "/api/v1/clips/"} ->
         {Entity("clip-123", "", "ready", f, 0) : f \in BOOLEAN}
    [] req.url.path[1] \in {"/api/v1/channels", "/api/v1/channels/"} ->
         {Entity("channel-1", "Camera 1", st, FALSE, 0) : st \in ChannelStatuses}
    [] OTHER -> {Entity("new-tag-id", "", "", FALSE, 0)}

\* the statuses the session may have after the upstream handled the request
NextStatuses(req, status) == IF IsLifecycleRequest(req) THEN SessionStatuses ELSE {status}

\* the bodies of an answer that is not an error
AcceptingBodies(req, next) ==
  {ObjectBody(ToString(e), e) : e \in EntitiesFor(req, next)}
    \cup {ErrorBody, MalformedBody, EmptyBody, InterruptedBody(DeadlineWhileReading)}

\* every answer of the upstream: a response and the session status it leaves behind
Answers(req, status) ==
  UNION { { [resp |-> HTTPResponse(code, body), next |-> next]
            : code \in {c \in StatusCodes : c < 400}, body \in AcceptingBodies(req, next) }
          : next \in NextStatuses(req, status) }
  \cup
  { [resp |-> HTTPResponse(code, body), next |-> status]
    : code \in {c \in StatusCodes : c >= 400},
      body \in {ErrorBody, MalformedBody, EmptyBody, InterruptedBody(DeadlineWhileReading)} }

\* the request was built with the context of the invocation, and that context is cancelled
Aborted(req, cancelled) == cancelled /\ req.ctx = "ctx"

\* what c.httpClient.Do can hand back for the request: once the request's context is
\* cancelled, at most the headers that had arrived, with a body whose Read fails
Responses(req, status, cancelled) ==
  IF Aborted(req, cancelled)
  THEN { [resp |-> HTTPResponse(a.resp.code, InterruptedBody(CanceledWhileReading)),
          next |-> a.next] : a \in Answers(req, status) }
  ELSE Answers(req, status)

(***************************************************************************)
(* The state machine                                                       *)
(***************************************************************************)
NoCall == [kind |-> "", name |-> "", args |-> <<>>]

\* the locals of an invocation, as the goroutine that handles it holds them
Locals ==
  [pc |-> pc, call |-> call, requests |-> requests, response |-> response, ret |-> ret,
   result |-> result, ctxDone |-> ctxDone]

\* main: client.New(*apiURL); no invocation yet
\* the process starts as a build for one of these architectures, in one of these
\* environments, with one of these command lines: main
\* creates the client, and the server has no invocation yet
Start(archs, envs, cls) ==
  /\ goarch \in archs
  /\ environ \in envs
  /\ commandLine \in cls
  /\ baseURL = main(environ, commandLine)
  /\ pc = "idle"
  /\ call = NoCall
  /\ requests = <<>>
  /\ response = NoResponse
  /\ ret = NoReturn
  /\ result = NoResult
  /\ ctxDone = FALSE
  /\ parked = Locals
  /\ upstreamStatus \in SessionStatuses

\* started without VIDEO_PLATFORM_URL, with the default URL or with one given by -api-url
Init == Start({"amd64"}, {Unset}, {Unset, Given("http://[::1")})

\* c.httpClient.Do returns a response: the rest of doRequest, of the client method
\* and of the handler
DoReturns ==
  /\ pc = "waiting"
  /\ \E a \in Responses(requests[1], upstreamStatus, ctxDone) :
       LET r == doRequest(a.resp) IN
       /\ response' = a.resp
       /\ upstreamStatus' = a.next
       /\ ret' = ClientReturn(r.err, r.v)
       /\ result' = Return(call, ret')
  /\ pc' = "done"
  /\ UNCHANGED <<goarch, environ, commandLine, baseURL, call, requests, ctxDone, parked>>

\* c.httpClient.Do returns an error: connection failure, deadline, cancellation
DoFails ==
  /\ pc = "waiting"
  /\ \E cause \in DoErrors(Aborted(requests[1], ctxDone)),
        next \in NextStatuses(requests[1], upstreamStatus) :
       LET resp == TransportFailure(cause)
           r == doRequest(resp) IN
       /\ response' = resp
       /\ upstreamStatus' = next
       /\ ret' = ClientReturn(r.err, r.v)
       /\ result' = Return(call, ret')
  /\ pc' = "done"
  /\ UNCHANGED <<goarch, environ, commandLine, baseURL, call, requests, ctxDone, parked>>

\* the host cancels the request while the handler is blocked in c.httpClient.Do: the
\* context the handler was called with is done
Cancel ==
  /\ pc = "waiting"
  /\ ~ctxDone
  /\ ctxDone' = TRUE
  /\ UNCHANGED <<goarch, environ, commandLine, baseURL, pc, call, requests, response, ret,
               result, parked, upstreamStatus>>

\* server.ServeStdio: the message loop writes the result out and reads the next request
Deliver ==
  /\ pc = "done"
  /\ pc' = "idle"
  /\ call' = NoCall
  /\ requests' = <<>>
  /\ response' = NoResponse
  /\ ret' = NoReturn
  /\ result' = NoResult
  /\ ctxDone' = FALSE
  /\ UNCHANGED <<goarch, environ, commandLine, baseURL, upstreamStatus, parked>>

\* the server dispatches a tools/call request to the handler registered for the tool
CallTool ==
  /\ pc = "idle"
  /\ \/ \E args \in ArgMaps("list_sessions") : makeListSessions(args)
     \/ \E args \in ArgMaps("create_session") : makeCreateSession(args)
     \/ \E args \in ArgMaps("start_session") : makeStartSession(args)
     \/ \E args \in ArgMaps("pause_session") : makePauseSession(args)
     \/ \E args \in ArgMaps("complete_session") : makeCompleteSession(args)
     \/ \E args \in ArgMaps("list_clips") : makeListClips(args)
     \/ \E args \in ArgMaps("favorite_clip") : makeFavoriteClip(args)
     \/ \E args \in ArgMaps("list_channels") : makeListChannels(args)
     \/ \E args \in ArgMaps("activate_channel") : makeActivateChannel(args)
     \/ \E args \in ArgMaps("deactivate_channel") : makeDeactivateChannel(args)
     \/ \E args \in ArgMaps("list_tags") : makeListTags(args)
     \/ \E args \in ArgMaps("create_tag") : makeCreateTag(args)

\* the server dispatches a resources/read request to the handler registered for the URI
ReadResource ==
  /\ pc = "idle"
  /\ \/ makeSessionsResource("video://sessions")
     \/ makeClipsResource("video://clips")
     \/ makeChannelsResource("video://channels")
     \/ makeTagsResource("video://tags")

\* the server dispatches a prompts/get request to the handler registered for the prompt
GetPrompt ==
  /\ pc = "idle"
  /\ \/ \E args \in PromptArgMaps("analyze_session") : Prompt("analyze_session", args)
     \/ \E args \in PromptArgMaps("review_clips") : Prompt("review_clips", args)
     \/ \E args \in PromptArgMaps("game_report") : Prompt("game_report", args)
     \/ \E args \in PromptArgMaps("system_status") : Prompt("system_status", args)

Next ==
  \/ CallTool
  \/ ReadResource
  \/ GetPrompt
  \/ DoReturns
  \/ DoFails
  \/ Cancel
  \/ Deliver

Spec == Init /\ [][Next]_vars

(***************************************************************************)
(* The client on its own: a caller of package client hands the methods     *)
(* typed parameters, as client_test.go does.                               *)
(***************************************************************************)
\* the params structs, request structs and identifiers tried
ListSessionsParamsTried ==
  [Status : {"", "active"}, SessionType : {"", "game"}, Limit : {-1, 0, 10},
   Offset : {-1, 0, 20}]

ListClipsParamsTried ==
  [SessionID : {"", "session-1"}, ChannelID : {"", "channel-1"}, Status : {"", "ready"},
   Favorite : {Nil, PtrB(TRUE), PtrB(FALSE)}, Search : {"", "touchdown"},
   Limit : {0, 10}, Offset : {0, 20}]

ListTagsParamsTried ==
  [SessionID : {"", "session-1"}, ClipID : {"", "clip-1"}, PlayType : {"", "run"},
   IsImportant : {Nil, PtrB(TRUE), PtrB(FALSE)}, IsReviewed : {Nil, PtrB(TRUE), PtrB(FALSE)},
   Limit : {0, 10}, Offset : {0, 20}]

CreateSessionRequestsTried ==
  [name : {PtrS("New Game")}, session_type : {PtrS("game")}, scheduled_start : {Nil},
   opponent : {Nil, PtrS("Team B")}, location : {Nil, PtrS("Home")}]

CreateTagRequestsTried ==
  [clip_id : {PtrS("clip-1")}, session_id : {PtrS("session-1")}, quarter : {Nil, PtrN(2)},
   down : {Nil, PtrN(0)}, distance : {Nil}, play_type : {Nil, PtrS("run")},
   formation : {Nil}, result : {Nil}, yards_gained : {Nil, PtrN(-3)}, labels : {Nil},
   notes : {Nil}]

IdsTried == {"", "session-123", "%zz"}

\* a method of the client is called: it stops early, or blocks in c.httpClient.Do
ClientCall(method, params, sent) ==
  /\ call' = [kind |-> "client", name |-> method, args |-> params]
  /\ response' = NoResponse
  /\ result' = NoResult
  /\ IF sent.sent
     THEN /\ pc' = "waiting"
          /\ requests' = <<sent.req>>
          /\ ret' = NoReturn
     ELSE /\ pc' = "done"
          /\ requests' = <<>>
          /\ ret' = ClientReturn(sent.err, ZeroEntity)
  /\ UNCHANGED <<goarch, environ, commandLine, baseURL, upstreamStatus, ctxDone, parked>>

CallClient ==
  /\ pc = "idle"
  /\ \/ \E p \in ListSessionsParamsTried : ClientCall("ListSessions", p, ListSessions(baseURL, p))
     \/ \E id \in IdsTried : ClientCall("GetSession", [id |-> id], GetSession(baseURL, id))
     \/ \E r \in CreateSessionRequestsTried :
          ClientCall("CreateSession", r, CreateSession(baseURL, r))
     \/ \E id \in IdsTried : ClientCall("StartSession", [id |-> id], StartSession(baseURL, id))
     \/ \E id \in IdsTried : ClientCall("PauseSession", [id |-> id], PauseSession(baseURL, id))
     \/ \E id \in IdsTried :
          ClientCall("CompleteSession", [id |-> id], CompleteSession(baseURL, id))
     \/ \E p \in ListClipsParamsTried : ClientCall("ListClips", p, ListClips(baseURL, p))
     \/ \E id \in IdsTried : ClientCall("GetClip", [id |-> id], GetClip(baseURL, id))
     \/ \E id \in IdsTried : ClientCall("FavoriteClip", [id |-> id], FavoriteClip(baseURL, id))
     \/ ClientCall("ListChannels", <<>>, ListChannels(baseURL))
     \/ \E id \in IdsTried :
          ClientCall("ActivateChannel", [id |-> id], ActivateChannel(baseURL, id))
     \/ \E id \in IdsTried :
          ClientCall("DeactivateChannel", [id |-> id], DeactivateChannel(baseURL, id))
     \/ \E p \in ListTagsParamsTried : ClientCall("ListTags", p, ListTags(baseURL, p))
     \/ \E r \in CreateTagRequestsTried : ClientCall("CreateTag", r, CreateTag(baseURL, r))

NextClient ==
  \/ CallClient
  \/ DoReturns
  \/ DoFails
  \/ Cancel
  \/ Deliver

SpecClient == Init /\ [][NextClient]_vars

(***************************************************************************)
(* Two invocations in flight.  The host message loop may hand each request *)
(* to its own goroutine; pc .. ctxDone are the locals of the goroutine     *)
(* that takes the next step, parked the locals of the other one.  What the *)
(* two share is the *client.Client the handlers close over, and the        *)
(* upstream.                                                               *)
(***************************************************************************)
\* the argument maps of list_sessions tried while two invocations are in flight
ConcurrentFilters ==
  {a \in ArgMaps("list_sessions") :
     a["status"] \in {Absent, Str("active")} /\ a["session_type"] = Absent /\ a["limit"] = Absent}

\* the server dispatches a request to its handler
Serve ==
  /\ pc = "idle"
  /\ \/ \E args \in ConcurrentFilters : makeListSessions(args)
     \/ \E args \in ArgMaps("start_session") : makeStartSession(args)
     \/ makeSessionsResource("video://sessions")
     \/ makeChannelsResource("video://channels")
     \/ \E args \in PromptArgMaps("game_report") : Prompt("game_report", args)

\* the scheduler runs the other goroutine
Switch ==
  /\ pc' = parked.pc
  /\ call' = parked.call
  /\ requests' = parked.requests
  /\ response' = parked.response
  /\ ret' = parked.ret
  /\ result' = parked.result
  /\ ctxDone' = parked.ctxDone
  /\ parked' = Locals
  /\ UNCHANGED <<goarch, environ, commandLine, baseURL, upstreamStatus>>

NextConcurrent ==
  \/ Serve
  \/ DoReturns
  \/ DoFails
  \/ Cancel
  \/ Deliver
  \/ Switch

SpecConcurrent == Init /\ [][NextConcurrent]_vars

(***************************************************************************)
(* The process from its start.  main reads the flag and the environment,   *)
(* creates the one client of the process and registers the handlers; the   *)
(* invocations served afterwards all go through that client.               *)
(***************************************************************************)
\* started in any of the environments, with any of the command lines
InitMain == Start({"amd64"}, Environments, CommandLines)

\* the server dispatches a request to one of the handlers main has registered
ServeMain ==
  /\ pc = "idle"
  /\ \/ makeListChannels(<<>>)
     \/ \E args \in ArgMaps("pause_session") : makePauseSession(args)
     \/ makeTagsResource("video://tags")
     \/ \E args \in PromptArgMaps("system_status") : Prompt("system_status", args)

NextMain ==
  \/ ServeMain
  \/ DoReturns
  \/ DoFails
  \/ Cancel
  \/ Deliver

SpecMain == InitMain /\ [][NextMain]_vars

(***************************************************************************)
(* Every handler under the deadline of the client.  Which filters an       *)
(* invocation carries makes no difference to whether it returns: the tools *)
(* are called with their required arguments only.                          *)
(***************************************************************************)
\* the argument maps of a tool that supply none of its optional arguments
PlainArgMaps(tool) ==
  {[k \in RequiredKeys(tool) \cup OptionalKeys(tool) |->
      IF k \in RequiredKeys(tool) THEN r[k] ELSE Absent]
     : r \in [RequiredKeys(tool) -> StringInputs]}

\* the server dispatches a tools/call request to the handler registered for the tool
CallToolPlain ==
  /\ pc = "idle"
  /\ \/ \E args \in PlainArgMaps("list_sessions") : makeListSessions(args)
     \/ \E args \in PlainArgMaps("create_session") : makeCreateSession(args)
     \/ \E args \in PlainArgMaps("start_session") : makeStartSession(args)
     \/ \E args \in PlainArgMaps("pause_session") : makePauseSession(args)
     \/ \E args \in PlainArgMaps("complete_session") : makeCompleteSession(args)
     \/ \E args \in PlainArgMaps("list_clips") : makeListClips(args)
     \/ \E args \in PlainArgMaps("favorite_clip") : makeFavoriteClip(args)
     \/ \E args \in PlainArgMaps("list_channels") : makeListChannels(args)
     \/ \E args \in PlainArgMaps("activate_channel") : makeActivateChannel(args)
     \/ \E args \in PlainArgMaps("deactivate_channel") : makeDeactivateChannel(args)
     \/ \E args \in PlainArgMaps("list_tags") : makeListTags(args)
     \/ \E args \in PlainArgMaps("create_tag") : makeCreateTag(args)

NextFair ==
  \/ CallToolPlain
  \/ ReadResource
  \/ GetPrompt
  \/ DoReturns
  \/ DoFails
  \/ Cancel
  \/ Deliver

\* http.Client{Timeout: 30 * time.Second}: a call of Do that has not returned when the
\* deadline passes returns then, with an error
SpecFair == Init /\ [][NextFair]_vars /\ WF_vars(DoFails)

(***************************************************************************)
(* The list tools and their limit.  The argument is a JSON number: any     *)
(* float64, also one that no int holds.                                    *)
(***************************************************************************)
\* the list tools, with the default each handler starts its params with
ListTools == {"list_sessions", "list_clips", "list_tags"}

\* values tried for limit: those of NumberInputs, the largest int, and numbers beyond the
\* ints on either side (1e30 and -1e30, say)
LimitInputs ==
  NumberInputs \cup {Num(2 * MaxInt + 1), Num(2 * MaxInt + 2), Num(2 * MinInt - 2)}

\* the argument maps tried for a list tool: at most a limit and one filter
LimitArgMaps(tool) ==
  {[k \in OptionalKeys(tool) |->
      IF k = "limit" THEN limit ELSE IF k = "session_id" THEN id ELSE Absent]
     : limit \in LimitInputs, id \in {Absent, Str("session-123")}}

InitLimits == Start(GOARCHs, {Unset}, {Unset})

\* the server dispatches a tools/call request for one of the list tools
ServeLists ==
  /\ pc = "idle"
  /\ \/ \E args \in LimitArgMaps("list_sessions") : makeListSessions(args)
     \/ \E args \in LimitArgMaps("list_clips") : makeListClips(args)
     \/ \E args \in LimitArgMaps("list_tags") : makeListTags(args)

NextLimits ==
  \/ ServeLists
  \/ DoReturns
  \/ DoFails
  \/ Cancel
  \/ Deliver

SpecLimits == InitLimits /\ [][NextLimits]_vars

TypeOK ==
  /\ baseURL \in BaseURLs
  /\ pc \in {"idle", "waiting", "done"}
  /\ Len(requests) <= 1
  /\ upstreamStatus \in SessionStatuses

(***************************************************************************)
(* Properties                                                              *)
(***************************************************************************)
\* the invocation has gone through its handler's argument checks and client call
Called(tool) == pc \in {"waiting", "done"} /\ call.kind = "tool" /\ call.name = tool

\* an argument that is absent, not a string, or the empty string
Missing(x) == x.t # "string" \/ x.s = ""

\* an error-flagged result with a nil handler error, and nothing sent upstream
RejectedLocally ==
  /\ pc = "done"
  /\ ~result.isNil
  /\ result.isError
  /\ result.err = NoError
  /\ requests = <<>>

\* the tools that take one identifier, and the name of that argument
IdentifierKey ==
  [start_session |-> "session_id", pause_session |-> "session_id",
   complete_session |-> "session_id", favorite_clip |-> "clip_id",
   activate_channel |-> "channel_id", deactivate_channel |-> "channel_id"]

\* C1: start_session, pause_session, complete_session, favorite_clip, activate_channel and
\* deactivate_channel, invoked with the identifier absent, empty or not a string, return an
\* error-flagged result and a nil error, and send nothing upstream.
C1_MissingIdentifierRejected ==
  \A tool \in DOMAIN IdentifierKey :
    (Called(tool) /\ Missing(call.args[IdentifierKey[tool]])) => RejectedLocally

\* start_session was invoked with a number as session_id and has returned
C1_Witness ==
  /\ Called("start_session")
  /\ call.args["session_id"] = Num(14)
  /\ pc = "done"
  /\ result.isError

\* C2: create_tag with clip_id or session_id missing or empty, and create_session with name
\* or session_type missing or empty, return an error-flagged result and a nil error and send
\* nothing upstream, whatever optional arguments come with them.
C2_MissingRequiredFieldRejected ==
  /\ (Called("create_tag") /\ (Missing(call.args["clip_id"]) \/ Missing(call.args["session_id"])))
       => RejectedLocally
  /\ (Called("create_session") /\ (Missing(call.args["name"]) \/ Missing(call.args["session_type"])))
       => RejectedLocally

\* create_tag was invoked with a clip_id, no session_id and a play_type, and has returned
C2_Witness ==
  /\ Called("create_tag")
  /\ call.args["clip_id"] = Str("session-123")
  /\ call.args["session_id"] = Absent
  /\ call.args["play_type"] = Str("active")
  /\ pc = "done"
  /\ result.isError

\* the upstream answered the invocation's request with this status code
Answered == pc = "done" /\ requests # <<>> /\ ~response.failed

\* C3: when the upstream answers a tool's request with a status >= 400, the tool returns an
\* error-flagged result and a nil error, and the text holds the status code and the raw body.
C3_UpstreamErrorFlagged ==
  (Answered /\ call.kind = "tool" /\ response.code >= 400) =>
    /\ ~result.isNil
    /\ result.isError
    /\ result.err = NoError
    /\ Contains(result.text, ToString(response.code))
    /\ Contains(result.text, response.body.raw)

\* list_channels got a 404 with a JSON error document
C3_Witness ==
  /\ Called("list_channels")
  /\ Answered
  /\ response.code = 404
  /\ response.body = ErrorBody
  /\ result.isError

\* C7: on every path a tool handler returns a result and a nil error.
C7_ToolNeverFaults ==
  (pc = "done" /\ call.kind = "tool") => (~result.isNil /\ result.err = NoError)

\* pause_session got a 204 without a body, which does not decode
C7_Witness ==
  /\ Called("pause_session")
  /\ Answered
  /\ response.code = 204
  /\ response.body = EmptyBody
  /\ result.isError
  /\ result.err = NoError

\* C4: a client method returns a nil entity and an error holding the status code and the raw
\* body whenever the status of the response is outside 200..299.
C4_NonSuccessIsError ==
  (Answered /\ call.kind = "client" /\ ~(response.code >= 200 /\ response.code <= 299)) =>
    /\ ret.isNil
    /\ ret.err # NoError
    /\ Contains(ret.err, ToString(response.code))
    /\ Contains(ret.err, response.body.raw)

\* the query of the request the invocation issued
Query == requests[1].url.query

\* the query has a parameter of this name
Sent(key) == \E p \in Query : p.k = key

\* C5 as stated: list_sessions sends status, session_type and limit exactly when the caller
\* supplied the argument, with the supplied value.
C5_SentIffSupplied ==
  (Called("list_sessions") /\ requests # <<>>) =>
    \A key \in {"status", "session_type", "limit"} :
      /\ Sent(key) <=> call.args[key] # Absent
      /\ call.args[key].t = "string" => [k |-> key, v |-> call.args[key].s] \in Query

\* C5, amended: list_sessions issues GET /api/v1/sessions; status and session_type are sent
\* exactly when supplied as a non-empty string, with that value; limit is sent as 20 when no
\* number was supplied, as the supplied number truncated toward zero when that is positive,
\* and not at all when it is zero or negative; nothing else is sent.
C5_FiltersForwarded ==
  (Called("list_sessions") /\ requests # <<>>) =>
    /\ requests[1].method = "GET"
    /\ requests[1].url.path = <<"/api/v1/sessions">>
    /\ \A p \in Query : p.k \in {"status", "session_type", "limit"}
    /\ \A key \in {"status", "session_type"} :
         IF Missing(call.args[key]) THEN ~Sent(key)
         ELSE \A p \in Query : p.k = key => p.v = call.args[key].s
    /\ \A key \in {"status", "session_type"} : ~Missing(call.args[key]) => Sent(key)
    /\ LET limit == call.args["limit"] IN
       CASE limit.t # "number" -> \A p \in Query : p.k = "limit" <=> p = [k |-> "limit", v |-> "20"]
         [] limit.t = "number" /\ limit.n >= 2 ->
              \A p \in Query : p.k = "limit" => p.v = ToString(limit.n \div 2)
         [] OTHER -> ~Sent("limit")
    /\ (call.args["limit"].t # "number" \/ call.args["limit"].n >= 2) => Sent("limit")

\* list_sessions was invoked with a status and no limit, and asked for status=active&limit=20
C5_Witness ==
  /\ Called("list_sessions")
  /\ call.args["status"] = Str("active")
  /\ call.args["limit"] = Absent
  /\ requests # <<>>
  /\ Query = {[k |-> "status", v |-> "active"], [k |-> "limit", v |-> "20"]}

\* C6: ListSessions, ListClips and ListTags serialize every field of their params struct as
\* a query parameter exactly when it is non-empty (string), positive (int) or non-nil
\* (pointer), Offset of ListTagsParams included.
C6_EveryFieldSerialized ==
  (pc \in {"waiting", "done"} /\ call.kind = "client" /\ requests # <<>>) =>
    LET p == call.args IN
    /\ call.name = "ListSessions" =>
         /\ Sent("status") <=> p.Status # ""
         /\ Sent("session_type") <=> p.SessionType # ""
         /\ Sent("limit") <=> p.Limit > 0
         /\ Sent("offset") <=> p.Offset > 0
    /\ call.name = "ListClips" =>
         /\ Sent("session_id") <=> p.SessionID # ""
         /\ Sent("channel_id") <=> p.ChannelID # ""
         /\ Sent("status") <=> p.Status # ""
         /\ Sent("favorite") <=> p.Favorite.set
         /\ Sent("search") <=> p.Search # ""
         /\ Sent("limit") <=> p.Limit > 0
         /\ Sent("offset") <=> p.Offset > 0
    /\ call.name = "ListTags" =>
         /\ Sent("session_id") <=> p.SessionID # ""
         /\ Sent("clip_id") <=> p.ClipID # ""
         /\ Sent("play_type") <=> p.PlayType # ""
         /\ Sent("is_important") <=> p.IsImportant.set
         /\ Sent("is_reviewed") <=> p.IsReviewed.set
         /\ Sent("limit") <=> p.Limit > 0
         /\ Sent("offset") <=> p.Offset > 0

\* the invocation got past the handler's required-argument checks
PassesValidation ==
  \/ call.kind = "resource"
  \/ call.kind = "tool" /\ \A key \in RequiredKeys(call.name) : ~Missing(call.args[key])

\* the handler has run up to the client call or to its return
Running == pc \in {"waiting", "done"} /\ call.kind \in {"tool", "resource"}

\* C8 as stated: an invocation issues at most one request, and exactly one when it passes
\* argument validation; create_tag sends one POST /api/v1/tags and nothing before it.
C8_ExactlyOneRequest ==
  Running =>
    /\ Len(requests) <= 1
    /\ PassesValidation => Len(requests) = 1

\* url.Parse accepts the URL the invocation asks for: the base URL and, for the tools that
\* put one in the path, the identifier
URLUsable ==
  /\ baseURL \notin UnparsableText
  /\ (call.kind = "tool" /\ call.name \in DOMAIN IdentifierKey)
       => call.args[IdentifierKey[call.name]].s \notin UnparsableText

\* C8, amended: an invocation issues at most one request whatever the outcome; one that
\* passes argument validation issues exactly one when url.Parse accepts its URL and none
\* otherwise; create_tag with both identifiers sends POST /api/v1/tags and no GET before it.
C8_AtMostOneRequest ==
  Running =>
    /\ Len(requests) <= 1
    /\ PassesValidation => (Len(requests) = 1 <=> URLUsable)
    /\ (Called("create_tag") /\ PassesValidation /\ requests # <<>>) =>
         /\ requests[1].method = "POST"
         /\ requests[1].url.path = <<"/api/v1/tags">>

\* create_tag with both identifiers got a 500: one POST went out and the handler is done
C8_Witness ==
  /\ Called("create_tag")
  /\ PassesValidation
  /\ Answered
  /\ response.code = 500
  /\ Len(requests) = 1
  /\ requests[1].method = "POST"

\* what start_session answers a 2xx response that holds an active session with
StartedActive ==
  (Answered /\ response.code >= 200 /\ response.code <= 299
     /\ response.body.kind = "object" /\ response.body.obj.status = "active") =>
    /\ ~result.isError
    /\ Contains(result.text, "started successfully")
    /\ Contains(result.text, "active")

\* C9 as stated: start_session with a non-empty session_id s issues exactly one request,
\* POST /api/v1/sessions/s/start, and reports a 2xx answer with status active as started.
C9_StartAlwaysPosts ==
  (Called("start_session") /\ ~Missing(call.args["session_id"])) =>
    /\ Len(requests) = 1
    /\ requests[1].method = "POST"
    /\ requests[1].url.path = <<"/api/v1/sessions/", call.args["session_id"].s, "/start">>
    /\ StartedActive

\* C9, amended: start_session with a non-empty session_id s issues exactly one request,
\* POST /api/v1/sessions/s/start, when url.Parse accepts that URL, and otherwise none and an
\* error-flagged result; a 2xx answer with status active is reported as started.
C9_StartPosts ==
  (Called("start_session") /\ ~Missing(call.args["session_id"])) =>
    /\ IF URLUsable
       THEN /\ Len(requests) = 1
            /\ requests[1].method = "POST"
            /\ requests[1].url.base = baseURL
            /\ requests[1].url.path =
                 <<"/api/v1/sessions/", call.args["session_id"].s, "/start">>
       ELSE RejectedLocally
    /\ StartedActive

\* start_session on session-123 got a 200 with status active
C9_Witness ==
  /\ Called("start_session")
  /\ call.args["session_id"] = Str("session-123")
  /\ Answered
  /\ response.code = 200
  /\ response.body.kind = "object"
  /\ response.body.obj.status = "active"
  /\ Contains(result.text, "started successfully")

\* the endpoint of each lifecycle tool
LifecycleEndpoint ==
  [start_session |-> "/start", pause_session |-> "/pause", complete_session |-> "/complete"]

\* the status shown to the caller is the one of the session in the response
ReportsUpstreamStatus ==
  (Answered /\ response.code < 400 /\ response.body.kind = "object") =>
    /\ ~result.isError
    /\ Contains(result.text, response.body.obj.status)

\* C10 as stated: whatever the status of the session upstream, start_session, pause_session
\* and complete_session on a session id are each forwarded as exactly one POST to their own
\* endpoint, and the status shown is the one in the response.
C10_AlwaysForwarded ==
  \A tool \in DOMAIN LifecycleEndpoint :
    (Called(tool) /\ ~Missing(call.args["session_id"])) =>
      /\ Len(requests) = 1
      /\ requests[1].method = "POST"
      /\ requests[1].url.path =
           <<"/api/v1/sessions/", call.args["session_id"].s, LifecycleEndpoint[tool]>>
      /\ ReportsUpstreamStatus

\* C10, amended: whatever the status of the session upstream, start_session, pause_session
\* and complete_session on a session id whose URL url.Parse accepts are each forwarded as
\* exactly one POST to their own endpoint, and the status shown is the one in the response;
\* with a URL url.Parse rejects, nothing is sent and the result is error-flagged.
C10_LifecycleForwarded ==
  \A tool \in DOMAIN LifecycleEndpoint :
    (Called(tool) /\ ~Missing(call.args["session_id"])) =>
      /\ IF URLUsable
         THEN /\ Len(requests) = 1
              /\ requests[1].method = "POST"
              /\ requests[1].url.path =
                   <<"/api/v1/sessions/", call.args["session_id"].s, LifecycleEndpoint[tool]>>
         ELSE RejectedLocally
      /\ ReportsUpstreamStatus

\* pause_session is forwarded for a session the upstream holds as completed
C10_Witness ==
  /\ Called("pause_session")
  /\ pc = "waiting"
  /\ upstreamStatus = "completed"
  /\ Len(requests) = 1
  /\ requests[1].url.path = <<"/api/v1/sessions/", "session-123", "/pause">>

(***************************************************************************)
(* What a handler does with its arguments, as one value: the request it    *)
(* asks the client for, or what it returns without one.                    *)
(***************************************************************************)
\* the message each tool handler rejects a missing required argument with
RequiredMessage(tool) ==
  CASE tool \in {"start_session", "pause_session", "complete_session"} -> "session_id is required"
    [] tool = "favorite_clip" -> "clip_id is required"
    [] tool \in {"activate_channel", "deactivate_channel"} -> "channel_id is required"
    [] tool = "create_session" -> "name and session_type are required"
    [] tool = "create_tag" -> "clip_id and session_id are required"
    [] OTHER -> ""

\* the client call each tool handler makes
ClientCallOf(tool, args) ==
  CASE tool = "list_sessions" -> ListSessions(baseURL, makeListSessionsParams(args))
    [] tool = "create_session" -> CreateSession(baseURL, makeCreateSessionRequest(args))
    [] tool = "start_session" -> StartSession(baseURL, AsString(args["session_id"]).v)
    [] tool = "pause_session" -> PauseSession(baseURL, AsString(args["session_id"]).v)
    [] tool = "complete_session" -> CompleteSession(baseURL, AsString(args["session_id"]).v)
    [] tool = "list_clips" -> ListClips(baseURL, makeListClipsParams(args))
    [] tool = "favorite_clip" -> FavoriteClip(baseURL, AsString(args["clip_id"]).v)
    [] tool = "list_channels" -> ListChannels(baseURL)
    [] tool = "activate_channel" -> ActivateChannel(baseURL, AsString(args["channel_id"]).v)
    [] tool = "deactivate_channel" -> DeactivateChannel(baseURL, AsString(args["channel_id"]).v)
    [] tool = "list_tags" -> ListTags(baseURL, makeListTagsParams(args))
    [] tool = "create_tag" -> CreateTag(baseURL, makeCreateTagRequest(args))

\* the client call each resource handler makes
ResourceCallOf(resource) ==
  CASE resource = "video://sessions" ->
         ListSessions(baseURL, [ListSessionsParams EXCEPT !.Limit = 100])
    [] resource = "video://clips" -> ListClips(baseURL, [ListClipsParams EXCEPT !.Limit = 100])
    [] resource = "video://channels" -> ListChannels(baseURL)
    [] resource = "video://tags" -> ListTags(baseURL, [ListTagsParams EXCEPT !.Limit = 100])

\* the requests a client call leaves behind, and what the handler returns when there is none
Outcome(c, sent) ==
  IF sent.sent THEN [requests |-> <<sent.req>>, result |-> NoResult]
  ELSE [requests |-> <<>>, result |-> Return(c, ClientReturn(sent.err, ZeroEntity))]

\* what the handler of an invocation does up to the point where it blocks or returns
Planned(c) ==
  CASE c.kind = "tool" ->
         IF \E k \in RequiredKeys(c.name) : AsString(c.args[k]).v = ""
         THEN [requests |-> <<>>, result |-> NewToolResultError(<<RequiredMessage(c.name)>>)]
         ELSE Outcome(c, ClientCallOf(c.name, c.args))
    [] c.kind = "resource" -> Outcome(c, ResourceCallOf(c.name))
    [] c.kind = "prompt" -> [requests |-> <<>>, result |-> PromptHandler(c.name, c.args)]

\* httpClient.Do handed the invocation something the upstream or the transport produced
\* for the invocation's own request
OwnResponse(l) ==
  IF l.response.failed
  THEN l.response \in {TransportFailure(cause) :
                         cause \in DoErrors(Aborted(l.requests[1], l.ctxDone))}
  ELSE \E st \in SessionStatuses :
         \E a \in Responses(l.requests[1], st, l.ctxDone) : a.resp = l.response

\* the locals of an invocation follow from its own arguments, the client's base URL and the
\* response to its own request
Determined(l) ==
  l.pc # "idle" =>
    /\ l.requests = Planned(l.call).requests
    /\ l.pc = "waiting" => l.requests # <<>>
    /\ (l.pc = "done" /\ l.requests = <<>>) => l.result = Planned(l.call).result
    /\ (l.pc = "done" /\ l.requests # <<>>) =>
         /\ OwnResponse(l)
         /\ l.ret = ClientReturn(doRequest(l.response).err, doRequest(l.response).v)
         /\ l.result = Return(l.call, l.ret)

\* C11: with two invocations in flight and their steps interleaved in any order, what each
\* one asks the upstream and what it returns follow from its own arguments and from the
\* response to its own request, and the base URL of the shared client never changes.
C11_InvocationsIndependent ==
  /\ [](Determined(Locals) /\ Determined(parked))
  /\ [][baseURL' = baseURL]_vars

\* two list_sessions invocations with different filters were in flight together; one got a
\* 200 with sessions, the other a 500
C11_Witness ==
  /\ pc = "done"
  /\ call.name = "list_sessions"
  /\ call.args["status"] = Str("active")
  /\ response.code = 200
  /\ response.body.kind = "object"
  /\ ~result.isError
  /\ parked.pc = "done"
  /\ parked.call.name = "list_sessions"
  /\ parked.call.args["status"] = Absent
  /\ parked.response.code = 500
  /\ parked.result.isError

\* the invocation ended in the failure its kind of handler reports: an error-flagged result
\* and a nil error for a tool, no contents and an error for a resource
Failure(l) ==
  CASE l.call.kind = "tool" -> ~l.result.isNil /\ l.result.isError /\ l.result.err = NoError
    [] l.call.kind = "resource" -> l.result.isNil /\ l.result.err # NoError
    [] OTHER -> FALSE

\* what the cancellation of an invocation's context does to that invocation and to no other
CancellationFollowed(l) ==
  /\ (l.pc = "done" /\ l.ctxDone) =>
       /\ Failure(l)
       /\ l.response.failed \/ l.response.body.kind = "interrupted"
       /\ l.response.failed => l.response.cause = "context canceled"
       /\ ~l.response.failed =>
            (l.response.code >= 400 \/ Contains(l.ret.err, CanceledWhileReading))
  /\ (l.pc = "done" /\ ~l.ctxDone) =>
       /\ ~Contains(l.ret.err, "context canceled")
       /\ l.response.body.readErr # CanceledWhileReading

\* C12: once the context of an invocation is cancelled while its request is outstanding,
\* httpClient.Do can return the context's error at once, the invocation ends in a failure
\* (error-flagged result for a tool, error for a resource) without a complete upstream
\* response, and the invocation in flight beside it sees nothing of the cancellation.
C12_CancellationAborts ==
  /\ CancellationFollowed(Locals)
  /\ CancellationFollowed(parked)
  /\ (pc = "waiting" /\ ctxDone) => ENABLED DoFails

\* start_session was cancelled while waiting and failed with the context's error; the read
\* of video://channels in flight beside it got its document
C12_Witness ==
  /\ pc = "done"
  /\ ctxDone
  /\ call.name = "start_session"
  /\ response.failed
  /\ result.isError
  /\ Contains(result.text, "context canceled")
  /\ parked.pc = "done"
  /\ parked.call.name = "video://channels"
  /\ ~parked.ctxDone
  /\ ~parked.result.isNil
  /\ Len(parked.result.contents) = 1

\* a resource read has returned
ResourceRead == pc = "done" /\ call.kind = "resource"

\* C13: a resource handler whose client call failed, for whatever reason, returns no contents
\* and an error that wraps the client's error; one whose client call succeeded returns a nil
\* error and exactly one text content.
C13_ResourceReadOutcome ==
  ResourceRead =>
    IF ret.err # NoError
    THEN /\ result.isNil
         /\ result.contents = <<>>
         /\ result.err # NoError
         /\ Len(result.err) = Len(ret.err) + 1
         /\ SubSeq(result.err, 2, Len(result.err)) = ret.err
    ELSE /\ ~result.isNil
         /\ result.err = NoError
         /\ Len(result.contents) = 1
         /\ result.contents[1].text = MarshalIndent(ret.v)

\* the read of video://tags got a 204 without a body, which does not decode
C13_Witness ==
  /\ ResourceRead
  /\ call.name = "video://tags"
  /\ response.code = 204
  /\ response.body = EmptyBody
  /\ result.isNil
  /\ Contains(result.err, "failed to decode response: ")

\* a handler has returned to the host
Returned == pc = "done" /\ call.kind \in {"tool", "resource", "prompt"}

\* a resource read whose client call failed
ResourceReadFailed == call.kind = "resource" /\ ret.err # NoError

\* C14 as stated: a handler returns a non-nil error only when it is a resource handler whose
\* client call failed; a prompt requested without its session_id returns a nil error.
C14_OnlyResourceReadsFault ==
  Returned => (result.err # NoError <=> ResourceReadFailed)

\* a prompt that requires session_id was requested without one, or with an empty one
PromptWithoutSession ==
  /\ call.kind = "prompt"
  /\ call.name \in {"analyze_session", "review_clips", "game_report"}
  /\ call.args["session_id"].s = ""

\* C14, amended: a handler returns a non-nil error on exactly two paths: a resource read
\* whose client call failed, and analyze_session, review_clips or game_report requested with
\* session_id absent or empty, which return no result and the error "session_id is
\* required"; every tool handler and system_status return a nil error on every path.
C14_HardErrorPaths ==
  Returned =>
    /\ result.err # NoError <=> (ResourceReadFailed \/ PromptWithoutSession)
    /\ PromptWithoutSession => (result.isNil /\ result.err = <<"session_id is required">>)
    /\ result.err # NoError => result.isNil

\* review_clips was requested with a play_type and no session_id
C14_Witness ==
  /\ Returned
  /\ call.name = "review_clips"
  /\ call.args["session_id"] = Absent
  /\ call.args["play_type"] = Str("session-123")
  /\ result.isNil
  /\ result.err # NoError

\* the collection each resource reads
CollectionPath(resource) ==
  CASE resource = "video://sessions" -> "/api/v1/sessions"
    [] resource = "video://clips" -> "/api/v1/clips"
    [] resource = "video://channels" -> "/api/v1/channels"
    [] resource = "video://tags" -> "/api/v1/tags"

\* the resource handler has run up to its client call or to its return
Reading == pc \in {"waiting", "done"} /\ call.kind = "resource"

\* a read that succeeded returns one application/json text document under the URI asked for
OneDocument ==
  (pc = "done" /\ ret.err = NoError) =>
    /\ Len(result.contents) = 1
    /\ result.contents[1].mimeType = "application/json"
    /\ result.contents[1].uri = call.args["uri"].s

\* C15 as stated: each of the four resource reads issues exactly one GET for its own
\* collection with limit=100 as its only query parameter, and on success returns one
\* application/json text document whose URI is the URI of the read request.
C15_EveryReadCarriesLimit ==
  Reading =>
    /\ Len(requests) = 1
    /\ requests[1].method = "GET"
    /\ requests[1].url.path = <<CollectionPath(call.name)>>
    /\ requests[1].url.query = {[k |-> "limit", v |-> "100"]}
    /\ OneDocument

\* C15, amended: each of the four resource reads issues exactly one GET for its own
\* collection when url.Parse accepts the base URL, and none otherwise; the reads of
\* video://sessions, video://clips and video://tags carry limit=100 as their only query
\* parameter, the read of video://channels carries no query parameter at all; on success
\* each returns one application/json text document whose URI is the URI of the read request.
C15_ReadsOneCollection ==
  Reading =>
    /\ IF baseURL \in UnparsableText
       THEN requests = <<>> /\ pc = "done" /\ result.isNil /\ result.err # NoError
       ELSE /\ Len(requests) = 1
            /\ requests[1].method = "GET"
            /\ requests[1].url.base = baseURL
            /\ requests[1].url.path = <<CollectionPath(call.name)>>
            /\ requests[1].url.query =
                 IF call.name = "video://channels" THEN NoQuery
                 ELSE {[k |-> "limit", v |-> "100"]}
    /\ OneDocument

\* the read of video://tags asked for limit=100 and got its document
C15_Witness ==
  /\ Reading
  /\ call.name = "video://tags"
  /\ requests # <<>>
  /\ requests[1].url.query = {[k |-> "limit", v |-> "100"]}
  /\ response.code = 200
  /\ response.body.kind = "object"
  /\ Len(result.contents) = 1
  /\ result.contents[1].uri = "video://tags"

\* the type each handler asserts an argument to
ExpectedType(key) ==
  IF key = "limit" \/ key \in FieldKeys THEN "number"
  ELSE IF key \in BoolKeys THEN "bool" ELSE "string"

\* the argument is present with a value of another type than the handler asserts
WrongTyped(key, x) == x.t # "absent" /\ x.t # ExpectedType(key)

\* the invocation looks, so far, like the invocation c would look
SameAs(c) ==
  /\ requests = Planned(c).requests
  /\ (pc = "done" /\ requests = <<>>) => result = Planned(c).result
  /\ (pc = "done" /\ requests # <<>>) => result = Return(c, ret)

\* C16: a tool invoked with an argument of the wrong type (a number for session_id, a string
\* for limit, a string for favorite, ...) asks the upstream the same request, or none, and
\* returns the same result as it does when invoked without that argument and with the other
\* arguments unchanged.
C16_WrongTypeReadsAsAbsent ==
  (pc \in {"waiting", "done"} /\ call.kind = "tool") =>
    /\ SameAs(call)
    /\ \A key \in DOMAIN call.args :
         WrongTyped(key, call.args[key]) => SameAs([call EXCEPT !.args[key] = Absent])

\* list_clips was invoked with strings for favorite and for limit: it asked for limit=20 alone
C16_Witness ==
  /\ Called("list_clips")
  /\ call.args["favorite"] = Str("true")
  /\ call.args["limit"] = Str("10")
  /\ call.args["status"] = Absent
  /\ requests # <<>>
  /\ requests[1].url.query = {[k |-> "limit", v |-> "20"]}

\* a method of the client has been called
ClientCalled == pc \in {"waiting", "done"} /\ call.kind = "client"

\* the client methods that change something upstream, and those of them that create
Mutating ==
  {"CreateSession", "CreateTag", "StartSession", "PauseSession", "CompleteSession",
   "FavoriteClip", "ActivateChannel", "DeactivateChannel"}

Creating == {"CreateSession", "CreateTag"}

\* the body is the JSON document of the request struct: the fields that are set, with
\* their values
Serializes(body, req) ==
  /\ body.kind = "json"
  /\ body.fields = {k \in DOMAIN req : req[k].set}
  /\ \A k \in body.fields :
       body.value[k] = IF req[k].t = "int" THEN ToString(req[k].n) ELSE req[k].s

\* the response has a 2xx status and a body that decodes
Decodable2xx ==
  /\ Answered
  /\ response.code >= 200
  /\ response.code <= 299
  /\ response.body.kind = "object"

\* C17: the request of every mutating client method is a POST with Content-Type
\* application/json, with the JSON-serialized request struct as body for CreateSession and
\* CreateTag and without a body for the six state transitions; the request of every list
\* and get method is a GET; on a 2xx response whose body decodes each method returns the
\* entity decoded from it.
C17_MethodsAndBodies ==
  ClientCalled =>
    /\ requests # <<>> =>
         IF call.name \in Mutating
         THEN /\ requests[1].method = "POST"
              /\ requests[1].contentType = "application/json"
              /\ IF call.name \in Creating THEN Serializes(requests[1].body, call.args)
                 ELSE requests[1].body = NoBody
         ELSE /\ requests[1].method = "GET"
              /\ requests[1].body = NoBody
    /\ Decodable2xx => (~ret.isNil /\ ret.err = NoError /\ ret.v = response.body.obj)

\* FavoriteClip posted without a body and returned the clip of the 200 response
C17_Witness ==
  /\ ClientCalled
  /\ call.name = "FavoriteClip"
  /\ Decodable2xx
  /\ requests[1].method = "POST"
  /\ requests[1].body = NoBody
  /\ ret.v.id = "clip-123"

\* a client method has returned an error
ClientFailed == ClientCalled /\ pc = "done" /\ ret.err # NoError

\* the connection failed, the deadline passed or the context was cancelled: before the
\* headers arrived, or while the body of a response that is not an error was read
TransportFailed ==
  /\ requests # <<>>
  /\ \/ response.failed
     \/ response.code < 400 /\ response.body.kind = "interrupted"

\* the body of a 2xx response arrived whole and is not the JSON document expected
Undecodable ==
  /\ Answered
  /\ response.code >= 200
  /\ response.code <= 299
  /\ response.body.kind \in {"malformed", "empty"}

\* C18: every error a client method returns is of exactly one of three classes, told apart
\* by the start of its message: "request failed: " for a transport failure (connection,
\* timeout, cancellation), "API error <status>: <body>" for an upstream rejection,
\* "failed to decode response: " for a 2xx response that does not decode; a transport
\* failure is never reported as a decode failure, nor a decode failure as a transport
\* failure.
C18_ErrorClasses ==
  ClientFailed =>
    /\ ret.err[1] \in {"request failed: ", "API error ", "failed to decode response: "}
    /\ ret.err[1] = "request failed: " <=> TransportFailed
    /\ ret.err[1] = "API error " <=> (Answered /\ response.code >= 400)
    /\ ret.err[1] = "failed to decode response: " <=> Undecodable

\* C19: whatever the outcome, a client method returns either an entity or an error and never
\* both or neither: a 2xx response with a body that decodes gives the entity of the
\* response and a nil error, anything else gives a nil entity and an error.
C19_EntityXorError ==
  (ClientCalled /\ pc = "done") =>
    /\ ret.isNil <=> ret.err # NoError
    /\ Decodable2xx => (~ret.isNil /\ ret.err = NoError /\ ret.v = response.body.obj)
    /\ ~Decodable2xx => (ret.isNil /\ ret.err # NoError)

\* create_session was invoked with a non-empty name and a non-empty session_type
CreateRequested ==
  /\ Called("create_session")
  /\ ~Missing(call.args["name"])
  /\ ~Missing(call.args["session_type"])

\* the one request of create_session: POST /api/v1/sessions with the name and the
\* session_type of the invocation in its JSON body
PostsNewSession ==
  /\ Len(requests) = 1
  /\ requests[1].method = "POST"
  /\ requests[1].url.path = <<"/api/v1/sessions">>
  /\ requests[1].body.kind = "json"
  /\ {"name", "session_type"} \subseteq requests[1].body.fields
  /\ requests[1].body.value["name"] = call.args["name"].s
  /\ requests[1].body.value["session_type"] = call.args["session_type"].s

\* a 2xx answer holding a session is reported with the id of that session
ReportsNewSession ==
  Decodable2xx => (~result.isNil /\ ~result.isError /\ Contains(result.text, response.body.obj.id))

\* C20 as stated: create_session with a non-empty name and session_type issues exactly one
\* POST /api/v1/sessions whose JSON body carries that name and session_type, and reports a
\* 2xx answer holding a session with a result that is not error-flagged and contains the id.
C20_CreateAlwaysPosts ==
  CreateRequested => (PostsNewSession /\ ReportsNewSession)

\* C20, amended: create_session with a non-empty name and session_type issues exactly one
\* POST /api/v1/sessions whose JSON body carries that name and session_type when url.Parse
\* accepts the base URL, and otherwise no request and an error-flagged result; a 2xx answer
\* holding a session is reported with a result that is not error-flagged and contains the id.
C20_CreatePosts ==
  CreateRequested =>
    /\ IF baseURL \in UnparsableText THEN RejectedLocally
       ELSE PostsNewSession /\ requests[1].url.base = baseURL
    /\ ReportsNewSession

\* create_session got a 200 with the new session and reported its id
C20_Witness ==
  /\ CreateRequested
  /\ call.args["name"] = Str("session-123")
  /\ call.args["session_type"] = Str("%zz")
  /\ Decodable2xx
  /\ response.body.obj.id = "new-session-id"
  /\ ~result.isError
  /\ Contains(result.text, "new-session-id")

\* favorite_clip was invoked with a non-empty clip_id
FavoriteRequested == Called("favorite_clip") /\ ~Missing(call.args["clip_id"])

\* the one request of favorite_clip: POST /api/v1/clips/{clip_id}/favorite
PostsFavorite ==
  /\ Len(requests) = 1
  /\ requests[1].method = "POST"
  /\ requests[1].url.path = <<"/api/v1/clips/", call.args["clip_id"].s, "/favorite">>

\* a 2xx answer holding a clip is reported with a text that is not error-flagged and says
\* "added to" exactly when that clip is a favorite and "removed from" exactly when it is not
ReportsReturnedClip ==
  Decodable2xx =>
    /\ ~result.isNil
    /\ ~result.isError
    /\ result.err = NoError
    /\ Contains(result.text, "added to") <=> response.body.obj.is_favorite
    /\ Contains(result.text, "removed from") <=> ~response.body.obj.is_favorite

\* C21 as stated: favorite_clip with a non-empty clip_id issues one POST
\* /api/v1/clips/{clip_id}/favorite and reports a 2xx answer with a non-error text that says
\* "added to" iff the returned clip is a favorite and "removed from" iff it is not.
C21_FavoriteAlwaysPosts ==
  FavoriteRequested => (PostsFavorite /\ ReportsReturnedClip)

\* C21, amended: favorite_clip with a non-empty clip_id issues one POST
\* /api/v1/clips/{clip_id}/favorite when url.Parse accepts that URL, and otherwise no request
\* and an error-flagged result; a 2xx answer holding a clip is reported with a non-error text
\* that says "added to" iff the returned clip is a favorite and "removed from" iff it is not,
\* whatever that clip was answered before.
C21_FavoritePosts ==
  FavoriteRequested =>
    /\ IF URLUsable THEN PostsFavorite /\ requests[1].url.base = baseURL
       ELSE RejectedLocally
    /\ ReportsReturnedClip

\* favorite_clip got a 200 whose clip is no longer a favorite and reported the removal
C21_Witness ==
  /\ FavoriteRequested
  /\ Decodable2xx
  /\ response.code = 200
  /\ ~response.body.obj.is_favorite
  /\ Contains(result.text, "removed from")
  /\ ~Contains(result.text, "added to")

\* the collection and the endpoint of each tool that moves a session or a channel
TransitionEndpoint ==
  [pause_session |-> <<"/api/v1/sessions/", "/pause">>,
   complete_session |-> <<"/api/v1/sessions/", "/complete">>,
   activate_channel |-> <<"/api/v1/channels/", "/activate">>,
   deactivate_channel |-> <<"/api/v1/channels/", "/deactivate">>]

\* the word by which the channel tools confirm the transition
TransitionWord == [activate_channel |-> "activated", deactivate_channel |-> "deactivated"]

DocumentedURL ==
  IF environ.set /\ environ.value # "" THEN environ.value
  ELSE IF commandLine.set THEN commandLine.value
  ELSE "http://localhost:8080"

\* C23: every upstream request goes to the base URL fixed at startup: VIDEO_PLATFORM_URL
\* when it is set and not empty, even with -api-url on the command line; otherwise the value
\* of -api-url; otherwise http://localhost:8080.
C23_BaseURLResolution ==
  /\ [](/\ baseURL = DocumentedURL
        /\ \A i \in 1..Len(requests) : requests[i].url.base = DocumentedURL)
  /\ [][baseURL' = baseURL]_vars

\* a request went out to the URL of the environment although -api-url named another one
C23_Witness ==
  /\ environ = Given("http://myserver:8080")
  /\ commandLine = Given("http://192.168.1.100:8080")
  /\ pc = "done"
  /\ Len(requests) = 1
  /\ requests[1].url.base = "http://myserver:8080"

\* the invocation was a request for this prompt, and its handler has returned
Prompted(prompt) == pc = "done" /\ call.kind = "prompt" /\ call.name = prompt

\* the session_id the prompt was requested with, empty when there is none
RequestedSession == IF "session_id" \in DOMAIN call.args THEN call.args["session_id"].s ELSE ""

\* the handler returned no result and the error that names the missing argument
PromptRefused == result.isNil /\ result.contents = <<>> /\ result.err = <<"session_id is required">>

\* the handler returned exactly one message, a text in the role of the user
OneUserMessage ==
  /\ ~result.isNil
  /\ result.err = NoError
  /\ Len(result.contents) = 1
  /\ result.contents[1].role = "user"
  /\ result.contents[1].type = "text"

\* C24 as stated: each of the four prompts checks its required argument: without a
\* session_id it yields an error and no message, with one it yields exactly one user-role
\* text message in which that session_id appears; no prompt issues an upstream request.
C24_EveryPromptChecks ==
  \A prompt \in Prompts :
    Prompted(prompt) =>
      /\ requests = <<>>
      /\ IF RequestedSession = "" THEN PromptRefused
         ELSE OneUserMessage /\ Contains(result.contents[1].text, RequestedSession)

\* C24, amended: analyze_session, review_clips and game_report check their required
\* argument: without a session_id they yield an error and no message, with one exactly one
\* user-role text message in which that session_id appears; system_status, which declares
\* no argument, checks nothing and always yields exactly one user-role text message; no
\* prompt issues an upstream request.
C24_SessionPromptsCheck ==
  \A prompt \in Prompts :
    Prompted(prompt) =>
      /\ requests = <<>>
      /\ response = NoResponse
      /\ IF prompt = "system_status" THEN OneUserMessage
         ELSE IF RequestedSession = "" THEN PromptRefused
         ELSE OneUserMessage /\ Contains(result.contents[1].text, RequestedSession)

\* game_report was requested for session-123 and returned its one message
C24_Witness ==
  /\ Prompted("game_report")
  /\ RequestedSession = "session-123"
  /\ OneUserMessage
  /\ Contains(result.contents[1].text, "session-123")

\* the default limit the input schema of each list tool documents
DocumentedDefault == [list_sessions |-> 20, list_clips |-> 20, list_tags |-> 50]

\* the limit parameters of the request
LimitsSent == {p.v : p \in {q \in Query : q.k = "limit"}}

\* C25: list_sessions and list_clips ask the upstream for limit=20 and list_tags for
\* limit=50 when no limit is supplied; a limit that is supplied as a number takes the place
\* of the default: what is asked for is that number as an int, and never the default.
C25_DefaultLimits ==
  \A tool \in ListTools :
    (Called(tool) /\ requests # <<>>) =>
      LET limit == call.args["limit"] IN
      /\ limit = Absent => LimitsSent = {ToString(DocumentedDefault[tool])}
      /\ limit.t = "number" =>
           LimitsSent = IF IntOf(limit.n) > 0 THEN {ToString(IntOf(limit.n))} ELSE {}

\* list_tags was invoked without a limit and asked for limit=50; the upstream answered
C25_Witness ==
  /\ Called("list_tags")
  /\ call.args["limit"] = Absent
  /\ Answered
  /\ LimitsSent = {"50"}

\* the upstream answered a tool's request 2xx with a body that is no JSON document: none at
\* all, something else than JSON, or one that broke off while it was read
Undecodable2xx ==
  /\ call.kind = "tool"
  /\ Answered
  /\ response.code >= 200
  /\ response.code <= 299
  /\ response.body.kind \in {"empty", "malformed", "interrupted"}

\* C26: a tool whose request the upstream answered 2xx with a body that does not decode,
\* an empty one included, returns an error-flagged result and a nil error, also when the
\* request was a transition the upstream has carried out; the one request stays the only one
\* and no entity is made up for the missing one.
C26_UndecodableIsError ==
  Undecodable2xx =>
    /\ ~result.isNil
    /\ result.isError
    /\ result.err = NoError
    /\ Contains(result.text, FailureText(call.name))
    /\ Contains(result.text, "failed to decode response: ")
    /\ ret.isNil
    /\ Len(requests) = 1
    /\ ~ENABLED DoReturns
    /\ ~ENABLED DoFails

\* start_session got a 204 without a body from an upstream that now holds the session as
\* active, and reported a failure
C26_Witness ==
  /\ Called("start_session")
  /\ Undecodable2xx
  /\ response.code = 204
  /\ response.body = EmptyBody
  /\ upstreamStatus = "active"
  /\ result.isError
  /\ Contains(result.text, "EOF")

\* C27: every invocation returns, and returns once: a handler blocked in httpClient.Do
\* gets out of it with the response, a transport failure, the caller's cancellation or the
\* deadline of the client, and what it has returned stays its one answer until the server
\* has written it out.
C27_EveryInvocationReturns ==
  /\ (pc = "waiting") ~> (pc = "done")
  /\ [](pc = "done" => (result.isNil <=> result.err # NoError))
  /\ [][pc = "done" => (pc' = "idle" /\ requests' = <<>>)]_vars

\* pause_session returned because the deadline of the client passed before an answer came
C27_Witness ==
  /\ Called("pause_session")
  /\ pc = "done"
  /\ Len(requests) = 1
  /\ response.failed
  /\ response.cause = "context deadline exceeded"
  /\ result.isError
  /\ ~ctxDone

\* C28: for every tool, the arguments its input schema declares Required are the ones whose
\* absence makes the handler return an error-flagged result without calling the upstream:
\* with one of them absent the invocation is rejected, and with all of them there it is not
\* rejected whatever else is absent (nothing is sent then only when url.Parse refuses the
\* URL, and the result says so).
C28_SchemaRequiredIsEnforced ==
  \A tool \in Tools :
    Called(tool) =>
      /\ SchemaRequired(tool) \subseteq DOMAIN call.args
      /\ IF \E key \in SchemaRequired(tool) : call.args[key] = Absent
         THEN RejectedLocally /\ result.text = <<RequiredMessage(tool)>>
         ELSE (\A key \in SchemaRequired(tool) : ~Missing(call.args[key])) =>
                /\ requests = <<>> => ~URLUsable
                /\ pc = "done" => result.text # <<RequiredMessage(tool)>>

\* create_tag was invoked with clip_id and session_id and nothing else, and sent its request
C28_Witness ==
  /\ Called("create_tag")
  /\ \A key \in DOMAIN call.args :
       call.args[key] = IF key \in SchemaRequired("create_tag") THEN Str("session-123") ELSE Absent
  /\ pc = "waiting"
  /\ Len(requests) = 1

\* a list tool was invoked and got as far as its request
Listing(tool) == Called(tool) /\ requests # <<>>

\* C29 as stated: a limit that a list tool sends is a positive integer: a supplied number
\* is sent truncated toward zero, and not at all when that is zero or negative.
C29_LimitTruncated ==
  \A tool \in ListTools :
    (Listing(tool) /\ call.args["limit"].t = "number") =>
      LET t == Trunc(call.args["limit"].n) IN
      /\ \A v \in LimitsSent : t > 0 /\ v = ToString(t)
      /\ t <= 0 => LimitsSent = {}

\* C29, amended: a limit that a list tool sends is a positive integer: a supplied number
\* within the range of int is sent truncated toward zero, and not at all when that is zero
\* or negative; a number beyond the range of int is converted as the implementation has it,
\* to the smallest int on amd64, which is not sent, and to the nearest int on arm64, which is
\* the largest one and is sent when the number was positive.  The default is sent only when
\* no number was supplied.
C29_LimitPositiveInt ==
  \A tool \in ListTools :
    Listing(tool) =>
      LET limit == call.args["limit"]
          t == Trunc(limit.n) IN
      CASE limit.t # "number" -> LimitsSent = {ToString(DocumentedDefault[tool])}
        [] limit.t = "number" /\ t > MaxInt ->
             LimitsSent = IF goarch = "amd64" THEN {} ELSE {ToString(MaxInt)}
        [] limit.t = "number" /\ t < MinInt -> LimitsSent = {}
        [] OTHER -> LimitsSent = IF t > 0 THEN {ToString(t)} ELSE {}

\* list_sessions was invoked with limit 2.5 and asked for limit=2
C29_Witness ==
  /\ Listing("list_sessions")
  /\ call.args["limit"] = Num(5)
  /\ LimitsSent = {"2"}
  /\ Answered

\* the words by which each transition tool confirms the transition
Confirmation ==
  [start_session |-> "started successfully", pause_session |-> "paused",
   activate_channel |-> "activated", deactivate_channel |-> "deactivated"]

\* C30: start_session, pause_session, activate_channel and deactivate_channel confirm the
\* transition for every 2xx answer that decodes, whatever status it carries: the result is
\* not error-flagged, says the tool's confirmation, and ends with the returned status as it
\* came.
C30_ConfirmsWhateverStatus ==
  \A tool \in DOMAIN Confirmation :
    (Called(tool) /\ Decodable2xx) =>
      /\ ~result.isNil
      /\ ~result.isError
      /\ result.err = NoError
      /\ Contains(result.text, Confirmation[tool])
      /\ result.text[Len(result.text) - 1] = ". Status: "
      /\ result.text[Len(result.text)] = response.body.obj.status

\* start_session got a 200 whose session is paused, and still reported it as started
C30_Witness ==
  /\ Called("start_session")
  /\ Decodable2xx
  /\ response.code = 200
  /\ response.body.obj.status = "paused"
  /\ ~result.isError
  /\ Contains(result.text, "started successfully")
  /\ Contains(result.text, "paused")

====
